---- MODULE Spec2Model ----
(***************************************************************************)
(* Model of the Hacker News generation pipeline (package api, Server):     *)
(* processHandler / ProcessHackerNews / processHackerNews, the retry       *)
(* wrapper generateText, turn splitting and mergeAudioBytes, together with *)
(* the object store the pipeline reads and writes.                         *)
(*                                                                         *)
(* Strings the code inspects byte by byte (the podcast script and the text *)
(* handed to the synthesizer) are sequences of UTF-8 bytes:                *)
(*   '男' = E7 94 B7 = <<231,148,183>>   '女' = E5 A5 B3 = <<229,165,179>>  *)
(*   '：' = EF BC 9A = <<239,188,154>>   ':' = 58, ' ' = 32, '\n' = 10     *)
(***************************************************************************)
EXTENDS Integers, Sequences, FiniteSets, TLC

\* ------------------------------------------------------------- bounds
\* Most stories the front page of a day lists.
MaxStories == 2
\* config.HackerNews.MaxItems (MAX_ITEMS, default 10), scaled down.
CfgMaxItems == 5
\* Most lines of a podcast script drawn for the turn-splitting runs.
MaxLines == 2
\* Most segments handed to a direct mergeAudioBytes call.
MaxSegs == 3

\* ------------------------------------------------------------- strings
Min(a, b) == IF a < b THEN a ELSE b

\* unicode.IsSpace on the ASCII range: \t \n \v \f \r and the space.
IsSpace(b) == b \in {9, 10, 11, 12, 13, 32}

RECURSIVE TrimLeft(_)
TrimLeft(s) ==
    IF s # <<>> /\ IsSpace(Head(s)) THEN TrimLeft(Tail(s)) ELSE s

RECURSIVE TrimRight(_)
TrimRight(s) ==
    IF s # <<>> /\ IsSpace(s[Len(s)]) THEN TrimRight(SubSeq(s, 1, Len(s) - 1)) ELSE s

\* strings.TrimSpace
TrimSpace(s) == TrimRight(TrimLeft(s))

\* strings.HasPrefix
HasPrefix(s, p) == Len(s) >= Len(p) /\ SubSeq(s, 1, Len(p)) = p

\* strings.Split(s, "\n"): the pieces between the newline bytes, empty ones kept.
RECURSIVE SplitAcc(_, _, _)
SplitAcc(s, cur, acc) ==
    IF s = <<>> THEN Append(acc, cur)
    ELSE IF Head(s) = 10 THEN SplitAcc(Tail(s), <<>>, Append(acc, cur))
    ELSE SplitAcc(Tail(s), Append(cur, Head(s)), acc)

SplitLines(s) == SplitAcc(s, <<>>, <<>>)

\* strings.IndexAny(s, ":："): 0-based byte index of the first ':' (58) or
\* '：' (EF BC 9A) in s, -1 when there is none.
RECURSIVE IndexAnyFrom(_, _)
IndexAnyFrom(s, i) ==
    IF i > Len(s) THEN -1
    ELSE IF s[i] = 58 THEN i - 1
    ELSE IF i + 2 <= Len(s) /\ SubSeq(s, i, i + 2) = <<239, 188, 154>> THEN i - 1
    ELSE IndexAnyFrom(s, i + 1)

IndexAnyColon(s) == IndexAnyFrom(s, 1)

\* conversation[k:] for a 0-based byte offset k.
SliceFrom(s, k) == SubSeq(s, k + 1, Len(s))

\* The two speaker values of the synthesizer, "男" and "女" in the source.
Male == "male"
Female == "female"

MaleLabel == <<231, 148, 183>>
FemaleLabel == <<229, 165, 179>>
AsciiColon == <<58>>
WideColon == <<239, 188, 154>>

\* The speaker chosen for one script line (config.go:764-767).
SpeakerOfAsciiOnly(conversation) ==
    IF HasPrefix(conversation, MaleLabel \o AsciiColon) THEN Male ELSE Female

SpeakerOf(conversation) ==
    IF HasPrefix(conversation, MaleLabel \o AsciiColon)
       \/ HasPrefix(conversation, MaleLabel \o WideColon)
    THEN Male ELSE Female

\* The text handed to the synthesizer for one script line (config.go:772-775).
TurnText(conversation) ==
    LET idx == IndexAnyColon(conversation)
    IN  IF idx # -1 THEN TrimSpace(SliceFrom(conversation, idx + 1)) ELSE conversation



\* ------------------------------------------------------------- data
\* config.Server.Env (WORKER_ENV).
Env == "production"
\* config.MinIO.BucketName.
Bucket == "hacker-news"
\* time.Now().Format("2006-01-02") at the time of the request.
Today == "d1"
Dates == {"d1"}

\* The goroutines that run processHackerNews: at most two overlap.
Runs == {1, 2}

\* A second deployment (WORKER_ENV=staging) on the same bucket, and the day
\* before Today: the store holds their objects too.
OtherEnv == "staging"
Yesterday == "d0"
AllDates == Dates \cup {Yesterday}

\* fmt.Sprintf("content:%s:hacker-news:%s", s.config.Server.Env, date), in a
\* server whose config.Server.Env is env.
ContentKeyIn(env, date) == <<"content", env, "hacker-news", date>>
ContentKey(date) == ContentKeyIn(Env, date)
\* fmt.Sprintf("audio/%s-complete.mp3", date)
MergedAudioKey(date) == <<"audio", date, "complete.mp3">>

\* fmt.Sprintf("audio/%s-intro.mp3", date): the object of the intro narration
\* in the upload that lines 814-822 keep commented out.
IntroAudioKey(date) == <<"audio", date, "intro.mp3">>

\* strings.ReplaceAll(date, "-", "/"): "2025-04-23" becomes "2025/04/23".
DatePath(date) == <<"slashed", date>>

\* deleteContentHandler, lines 559-565: the three object names it deletes.
\* "content:" + env + ":hacker-news:" + date
contentObjectName(date) == <<"content", Env, "hacker-news", date>>
\* "audio/hacker-news-" + date + ".mp3"
audioObjectName(date) == <<"audio", "hacker-news", date, "mp3">>
\* datePath + "/" + env + "/hacker-news-" + date + ".mp3"
oldAudioObjectName(date) == <<DatePath(date), Env, "hacker-news", date, "mp3">>

\* getPodcastHandler, line 346: datePath + "/" + env + "/hacker-news-" + date + ".mp3"
podcastObjectName(date) == <<DatePath(date), Env, "hacker-news", date, "mp3">>

Keys ==
    {ContentKeyIn(env, d) : env \in {Env, OtherEnv}, d \in AllDates}
    \cup {MergedAudioKey(d) : d \in AllDates}
    \cup {IntroAudioKey(d) : d \in Dates}
    \cup {audioObjectName(d) : d \in Dates}
    \cup {oldAudioObjectName(d) : d \in Dates}

\* A generated text: the bytes of the text and the generation call that
\* produced it (gen = the run, 0 = content that was stored before any run
\* of the behaviour).  The Go zero value "" is EmptyText.
EmptyText == [gen |-> 0, body |-> <<>>]
EmptyURL == <<>>

\* The local struct `content` of processHackerNews, zero value.
ZeroContent ==
    [intro |-> EmptyText, podcast |-> EmptyText, blog |-> EmptyText,
     audioUrl |-> EmptyURL, audioFiles |-> <<>>]

NoObject == [kind |-> "none"]

\* json.Marshal(content): the stored JSON document carries the five fields.
Marshal(c) ==
    [kind |-> "json", intro |-> c.intro, podcast |-> c.podcast, blog |-> c.blog,
     audioUrl |-> c.audioUrl, audioFiles |-> c.audioFiles]

\* json.Unmarshal(contentData, &content): fails on bytes that are no JSON
\* document, otherwise fills the five fields.
UnmarshalOK(obj) == obj.kind = "json"
Unmarshal(obj) ==
    [intro |-> obj.intro, podcast |-> obj.podcast, blog |-> obj.blog,
     audioUrl |-> obj.audioUrl, audioFiles |-> obj.audioFiles]

\* UploadFile's return value: the presigned URL of the object, or the relative
\* path "/bucket/object" when presigning fails.
PresignedURL(key) == <<"presigned", Bucket, key>>
RelativePath(key) == <<"path", Bucket, key>>

\* UploadFile with a failed presigning treated as a failed upload.
UploadFileStrict(objectName, put, signed) ==
    IF put /\ signed
    THEN [url |-> PresignedURL(objectName), err |-> FALSE]
    ELSE [url |-> EmptyURL, err |-> TRUE]

\* UploadFile(objectName, data): `put` is whether PutObject succeeded, `signed`
\* whether GetPresignedURL did.  ("", err) when the put failed; otherwise the
\* presigned URL, or the relative path when presigning failed, and no error.
UploadFile(objectName, put, signed) ==
    IF ~put THEN [url |-> EmptyURL, err |-> TRUE]
    ELSE IF signed THEN [url |-> PresignedURL(objectName), err |-> FALSE]
    ELSE [url |-> RelativePath(objectName), err |-> FALSE]

\* ObjectExists: (false, err) when GetObject fails, false when Stat fails,
\* true when the object's size is positive, false otherwise.  `reach` is
\* whether the GetObject/Stat round trip got an answer from the store.
Size(obj) == IF obj.kind = "zero" THEN 0 ELSE 1

\* An existence check that looks at the answer of Stat only, not at the size.
ObjectExistsAnySize(obj, reach) == reach /\ obj.kind # "none"

ObjectExists(obj, reach) == reach /\ obj.kind # "none" /\ Size(obj) > 0

\* ------------------------------------------------------------- scripts
\* Podcast scripts the text generator returns in the pipeline runs:
\*   "男: hi\n女：yo"  and  "女: hi".
GenScripts ==
    { MaleLabel \o <<58, 32, 104, 105, 10>> \o FemaleLabel \o WideColon \o <<121, 111>>,
      FemaleLabel \o <<58, 32, 104, 105>> }

\* The script stored before the first run, "男: old".
OldScript == MaleLabel \o <<58, 32, 111, 108, 100>>

\* JoinContents: contents[0], then separator "\n\n---\n\n" and contents[i].
Separator == <<10, 10, 45, 45, 45, 10, 10>>

RECURSIVE JoinFrom(_, _, _)
JoinFrom(contents, i, result) ==
    IF i > Len(contents) THEN result
    ELSE JoinFrom(contents, i + 1, result \o Separator \o contents[i])

JoinContents(contents) ==
    IF Len(contents) = 0 THEN <<>> ELSE JoinFrom(contents, 2, contents[1])

\* ------------------------------------------------------------- retry wrapper
maxRetries == 3

\* One attempt of CreateChatCompletion: an error, a response without choices,
\* a choice whose content is empty, or a choice with text.
Attempts == {"err", "nochoice", "empty", "text"}

\* Lines 163 and 173: time.Sleep(time.Duration(i+1) * 2 * time.Second).
BackoffConstant(i) == 2

Backoff(i) == (i + 1) * 2

\* generateText: the loop over i = 0 .. maxRetries-1 on the responses the
\* backend gives; sleeps are the seconds slept between attempts.
RECURSIVE generateTextFrom(_, _, _)
generateTextFrom(resps, i, sleeps) ==
    IF i >= maxRetries
    THEN [err |-> TRUE, out |-> "none", attempts |-> i, sleeps |-> sleeps]
    ELSE IF resps[i + 1] \in {"err", "nochoice"}
         THEN IF i < maxRetries - 1
              THEN generateTextFrom(resps, i + 1, Append(sleeps, Backoff(i)))
              ELSE [err |-> TRUE, out |-> "none", attempts |-> i + 1, sleeps |-> sleeps]
         ELSE [err |-> FALSE, out |-> resps[i + 1], attempts |-> i + 1, sleeps |-> sleeps]

generateText(resps) == generateTextFrom(resps, 0, <<>>)

\* Lines 158 and 168: an attempt is retried when the request returned an
\* error or the response carries no choice.
AttemptFailedOnErrorOnly(resp) == resp = "err"

AttemptFailed(resp) == resp \in {"err", "nochoice"}

Responses == [1 .. maxRetries -> Attempts]

\* The text a successful generateText call returns: the choice's content.
TextOf(res, gen, body) ==
    [gen |-> gen, body |-> IF res.out = "text" THEN body ELSE <<>>]


\* ------------------------------------------------------------- state
VARIABLES
    isProcessing,   \* Server.isProcessing
    lastProcessed,  \* Server.lastProcessed, as a reading of `clock`
    clock,          \* time.Now(), a logical clock
    store,          \* the bucket: object name -> object
    site,           \* stories the front page of a day lists
    crashed,        \* the process died of an unrecovered panic
    quota,          \* triggers (requests, scheduled jobs) still to arrive
    faulty,         \* whether collaborator calls may fail in this behaviour
    run,            \* per run: position and locals of processHackerNews
    obs             \* per run: what the run did (collaborator calls, payloads)

vars == <<isProcessing, lastProcessed, clock, store, site, crashed, quota, faulty, run, obs>>

IdleRun ==
    [pc |-> "idle", via |-> "none", date |-> "", maxItems |-> 0,
     force |-> FALSE, forceAudio |-> FALSE, contentExists |-> FALSE,
     stories |-> <<>>, i |-> 0, storyTexts |-> <<>>,
     podcastContent |-> EmptyText, blogContent |-> EmptyText,
     introContent |-> EmptyText, content |-> ZeroContent,
     lines |-> <<>>, k |-> 0, audioSegments |-> <<>>,
     tempDir |-> FALSE, fileList |-> <<>>, segFiles |-> <<>>, merged |-> <<>>,
     mergedAudio |-> <<>>, mergeErr |-> FALSE,
     backend |-> <<>>, att |-> 0, sleeps |-> <<>>, genOut |-> "none",
     genErr |-> FALSE,
     text |-> <<>>, speaker |-> "", audio |-> <<>>, synthErr |-> FALSE,
     title |-> <<>>, maxTokens |-> 0,
     part |-> [g \in {"article", "comments"} |-> [pc |-> "idle", val |-> <<>>]],
     ch |-> [c \in {"article", "comments", "err"} |-> <<>>],
     article |-> <<>>, comments |-> <<>>, result |-> <<>>, contentErr |-> "none",
     response |-> [status |-> 0]]

ZeroObs ==
    [calls |-> {}, ok |-> {}, items |-> <<>>, podcastPayload |-> <<>>,
     blogPayload |-> <<>>, synthCalls |-> <<>>, introCalls |-> <<>>,
     before |-> NoObject, puts |-> <<>>]

\* The artifact an earlier run left: complete text, with or without audio.
\* Its "audioFiles" list is not empty: an earlier version of the server
\* recorded the locator of an intro audio there.
OldText(body) == [gen |-> 0, body |-> body]
OldAudioFiles == <<RelativePath(IntroAudioKey(Today))>>
OldContent(url) ==
    [intro |-> OldText(<<105>>), podcast |-> OldText(OldScript),
     blog |-> OldText(<<98>>), audioUrl |-> url, audioFiles |-> OldAudioFiles]

\* The audio the synthesizer returns for one call: determined by its input.
Segment(text, speaker) == [text |-> text, speaker |-> speaker]

OldAudio ==
    [kind |-> "mp3", data |-> <<Segment(TurnText(OldScript), SpeakerOf(OldScript))>>]

InitStores ==
    { [key \in Keys |-> NoObject] }
    \cup { [key \in Keys |->
              IF key = ContentKey(d) THEN Marshal(OldContent(EmptyURL)) ELSE NoObject]
           : d \in Dates }
    \cup { [key \in Keys |->
              IF key = ContentKey(d)
              THEN Marshal(OldContent(PresignedURL(MergedAudioKey(d))))
              ELSE IF key = MergedAudioKey(d) THEN OldAudio ELSE NoObject]
           : d \in Dates }

\* An object of zero length under the content key: a write that was cut short,
\* or an empty document put there by hand.
ZeroObject == [kind |-> "zero"]

InitCommon ==
    /\ isProcessing = FALSE
    /\ lastProcessed = 0
    /\ clock = 0
    /\ crashed = FALSE
    /\ run = [r \in Runs |-> IdleRun]
    /\ obs = [r \in Runs |-> ZeroObs]

\* One run over every stored state, with collaborator failures.
Init ==
    /\ InitCommon
    /\ store \in InitStores
    /\ site \in 0 .. MaxStories
    /\ quota = 1
    /\ faulty = TRUE

\* The outcomes of a collaborator call: it returns a result or an error.
Oks == IF faulty THEN BOOLEAN ELSE {TRUE}
Resps == IF faulty THEN Responses ELSE {[j \in 1 .. maxRetries |-> "text"]}

\* Run ids are handed out in order.
CanStart(r) ==
    /\ ~crashed
    /\ quota > 0
    /\ run[r].pc = "idle"
    /\ \A q \in Runs : q < r => run[q].pc # "idle"

At(r, pc) == ~crashed /\ run[r].pc = pc

\* processHandler (POST /api/v1/process): defaults, isProcessing = true, go func.
processHandler(r) ==
    /\ CanStart(r)
    /\ \E date \in Dates \cup {""}, maxItems \in {-1, 0, 1, CfgMaxItems},
          force \in BOOLEAN, forceAudio \in BOOLEAN :
          LET d == IF date = "" THEN Today ELSE date
              m == IF maxItems <= 0 THEN CfgMaxItems ELSE maxItems
          IN  run' = [run EXCEPT ![r] =
                        [IdleRun EXCEPT !.pc = "start", !.via = "http", !.date = d,
                                        !.maxItems = m, !.force = force,
                                        !.forceAudio = forceAudio]]
    /\ isProcessing' = TRUE
    /\ clock' = clock + 1
    /\ quota' = quota - 1
    /\ UNCHANGED <<lastProcessed, store, site, crashed, faulty, obs>>

\* ProcessHackerNews(date, maxItems): processHackerNews(date, maxItems, false, false),
\* started in a goroutine of its own by the scheduled job.
ProcessHackerNews(r) ==
    /\ CanStart(r)
    /\ \E date \in Dates, maxItems \in {-1, 0, 1, CfgMaxItems} :
          run' = [run EXCEPT ![r] =
                    [IdleRun EXCEPT !.pc = "start", !.via = "export", !.date = date,
                                    !.maxItems = maxItems]]
    /\ clock' = clock + 1
    /\ quota' = quota - 1
    /\ UNCHANGED <<isProcessing, lastProcessed, store, site, crashed, faulty, obs>>

\* processHackerNews, lines 599-604: isProcessing = true, the deferred reset.
Begin(r) ==
    /\ At(r, "start")
    /\ isProcessing' = TRUE
    /\ run' = [run EXCEPT ![r].pc = "exists"]
    /\ obs' = [obs EXCEPT ![r].before = store[ContentKey(run[r].date)]]
    /\ UNCHANGED <<lastProcessed, clock, store, site, crashed, quota, faulty>>

\* Lines 622-629: the existence check and the routing on it.
Exists(r) ==
    /\ At(r, "exists")
    /\ \E reach \in Oks :
          LET e == ObjectExists(store[ContentKey(run[r].date)], reach)
          IN  run' = [run EXCEPT ![r].contentExists = e,
                                 ![r].pc = IF ~e \/ run[r].force THEN "fetch" ELSE "load"]
    /\ obs' = [obs EXCEPT ![r].calls = @ \cup {"exists"}]
    /\ UNCHANGED <<isProcessing, lastProcessed, clock, store, site, crashed, quota, faulty>>

\* GetTopStories, lines 89-95 of the crawler: the list is cut to maxItems;
\* stories[:maxItems] with a negative maxItems is a slice-bounds panic.
TopStoriesPanics(n, maxItems) == n > maxItems /\ maxItems < 0
TopStories(n, maxItems) == [j \in 1 .. Min(n, maxItems) |-> j]

\* Lines 665-668: after the story loop, a run without any summary returns.
AfterStoriesAlways(storyTexts) == "podcast"

AfterStories(storyTexts) == IF Len(storyTexts) = 0 THEN "ret" ELSE "podcast"

\* Lines 632-639: GetTopStories; an error ends the run.  On an empty list the
\* story loop has no iteration.
Fetch(r) ==
    /\ At(r, "fetch")
    /\ \E ok \in Oks :
          IF ~ok THEN run' = [run EXCEPT ![r].pc = "ret"]
          ELSE IF TopStoriesPanics(site, run[r].maxItems)
               THEN run' = [run EXCEPT ![r].pc = "panic"]
               ELSE LET st == TopStories(site, run[r].maxItems)
                    IN  run' = [run EXCEPT ![r].stories = st, ![r].i = 1,
                                  ![r].pc = IF st = <<>> THEN AfterStories(<<>>)
                                            ELSE "story"]
    /\ obs' = [obs EXCEPT ![r].calls = @ \cup {"fetch"}]
    /\ UNCHANGED <<isProcessing, lastProcessed, clock, store, site, crashed, quota, faulty>>

\* GetStoryContent: both fetches are joined, then an error of either is returned.
StoryContentErr(articleOK, commentsOK) == ~(articleOK /\ commentsOK)

\* The summary of story id: its text stands for the story.
StoryBody(id) == <<100 + id>>

\* What the story loop does with one item (lines 642-663): nothing on a
\* failure, append on success.
AppendPlaceholder(texts, ok, text) ==
    IF ok THEN Append(texts, text) ELSE Append(texts, EmptyText)

AppendSummary(texts, ok, text) == IF ok THEN Append(texts, text) ELSE texts

\* Lines 649, 656, 662: the seconds slept at the end of an iteration; the
\* `continue` of a failed item skips the time.Sleep of line 662.
PacingSleep(ok) == IF ok THEN 2 ELSE 0

\* Lines 642-668: one iteration of the story loop, and the check after the loop.
Story(r) ==
    /\ At(r, "story")
    /\ \E articleOK \in Oks, commentsOK \in Oks :
       \E resps \in IF StoryContentErr(articleOK, commentsOK)
                     THEN {[j \in 1 .. maxRetries |-> "err"]} ELSE Resps :
          LET id == run[r].stories[run[r].i]
              cerr == StoryContentErr(articleOK, commentsOK)
              res == generateText(resps)
              ok == ~cerr /\ ~res.err
              texts == AppendSummary(run[r].storyTexts, ok, TextOf(res, r, StoryBody(id)))
              last == run[r].i = Len(run[r].stories)
          IN  /\ run' = [run EXCEPT ![r].storyTexts = texts, ![r].i = @ + 1,
                           ![r].pc = IF ~last THEN "story" ELSE AfterStories(texts)]
              /\ obs' = [obs EXCEPT
                           ![r].items = Append(@, [id |-> id, ok |-> ok,
                                                   text |-> TextOf(res, r, StoryBody(id)),
                                                   sleep |-> PacingSleep(ok)]),
                           ![r].calls = @ \cup (IF cerr THEN {"content"}
                                                ELSE {"content", "summarize"})]
    /\ UNCHANGED <<isProcessing, lastProcessed, clock, store, site, crashed, quota, faulty>>


Bodies(texts) == [j \in 1 .. Len(texts) |-> texts[j].body]

\* Entering the synthesis loop (line 759): the script is split into lines.
\* NextTurn is the index of the first line at or after k the loop does not
\* skip, 0 when there is none.
RECURSIVE NextTurn(_, _)
NextTurn(lines, k) ==
    IF k > Len(lines) THEN 0
    ELSE IF TrimSpace(lines[k]) = <<>> THEN NextTurn(lines, k + 1)
    ELSE k

\* Line 794: the merge is skipped when no segment was synthesized.
AfterTurnsSkipMerge(audioSegments) == IF Len(audioSegments) > 0 THEN "upload" ELSE "intro"

AfterTurnsOrReturn(audioSegments) == IF Len(audioSegments) > 0 THEN "m_mkdir" ELSE "ret"

AfterTurns(audioSegments) == IF Len(audioSegments) > 0 THEN "m_mkdir" ELSE "intro"

ToSynth(rec, script) ==
    LET ls == SplitLines(script)
        k == NextTurn(ls, 1)
    IN  [rec EXCEPT !.lines = ls, !.k = k,
                    !.pc = IF k = 0 THEN AfterTurns(<<>>) ELSE "synth"]

\* Lines 672-675, 680-683, 688-691: `if err != nil { ...; return }`.
AfterGenerationContinue(err, next) == next

AfterGeneration(err, next) == IF err THEN "ret" ELSE next

\* Lines 670-676: GeneratePodcastContent(storyTexts).
Podcast(r) ==
    /\ At(r, "podcast")
    /\ \E resps \in Resps, script \in GenScripts :
          LET res == generateText(resps)
          IN  run' = [run EXCEPT ![r].podcastContent =
                                     IF res.err THEN @ ELSE TextOf(res, r, script),
                                 ![r].pc = AfterGeneration(res.err, "blog")]
    /\ obs' = [obs EXCEPT ![r].podcastPayload = JoinContents(Bodies(run[r].storyTexts)),
                          ![r].calls = @ \cup {"podcast"}]
    /\ UNCHANGED <<isProcessing, lastProcessed, clock, store, site, crashed, quota, faulty>>

\* Lines 678-684: GenerateBlogContent(storyTexts).
Blog(r) ==
    /\ At(r, "blog")
    /\ \E resps \in Resps :
          LET res == generateText(resps)
          IN  run' = [run EXCEPT ![r].blogContent =
                                     IF res.err THEN @ ELSE TextOf(res, r, <<98>>),
                                 ![r].pc = AfterGeneration(res.err, "intro_text")]
    /\ obs' = [obs EXCEPT ![r].blogPayload = JoinContents(Bodies(run[r].storyTexts)),
                          ![r].calls = @ \cup {"blog"}]
    /\ UNCHANGED <<isProcessing, lastProcessed, clock, store, site, crashed, quota, faulty>>

\* Lines 686-692: GenerateIntroContent(podcastContent).
Intro(r) ==
    /\ At(r, "intro_text")
    /\ \E resps \in Resps :
          LET res == generateText(resps)
          IN  run' = [run EXCEPT ![r].introContent =
                                     IF res.err THEN @ ELSE TextOf(res, r, <<105>>),
                                 ![r].pc = AfterGeneration(res.err, "put_text")]
    /\ obs' = [obs EXCEPT ![r].calls = @ \cup {"intro"}]
    /\ UNCHANGED <<isProcessing, lastProcessed, clock, store, site, crashed, quota, faulty>>

\* Lines 694-707: the content object of a fresh generation.
NewContentNoIntro(rec) ==
    [intro |-> EmptyText, podcast |-> rec.podcastContent,
     blog |-> rec.blogContent, audioUrl |-> EmptyURL, audioFiles |-> <<>>]

NewContentStaleBlog(rec) ==
    [intro |-> rec.introContent, podcast |-> rec.podcastContent,
     blog |-> rec.content.blog, audioUrl |-> EmptyURL, audioFiles |-> <<>>]

NewContent(rec) ==
    [intro |-> rec.introContent, podcast |-> rec.podcastContent,
     blog |-> rec.blogContent, audioUrl |-> EmptyURL, audioFiles |-> <<>>]

\* Lines 709-723: marshal the content object and upload it under contentKey.
PutText(r) ==
    /\ At(r, "put_text")
    /\ LET c == NewContent(run[r])
       IN  \E ok \in Oks :
             /\ IF ok
                THEN /\ store' = [store EXCEPT ![ContentKey(run[r].date)] = Marshal(c)]
                     /\ run' = [run EXCEPT ![r] =
                                  ToSynth([run[r] EXCEPT !.content = c],
                                          run[r].podcastContent.body)]
                ELSE /\ store' = store
                     /\ run' = [run EXCEPT ![r].content = c, ![r].pc = "ret"]
             /\ obs' = [obs EXCEPT ![r].calls = @ \cup {"putContent"},
                                   ![r].ok = @ \cup (IF ok THEN {"putText"} ELSE {})]
    /\ UNCHANGED <<isProcessing, lastProcessed, clock, site, crashed, quota, faulty>>

\* Line 744: an artifact that has its audio is complete unless forceAudio.
AlreadyComplete(c, forceAudio) == c.audioUrl # EmptyURL /\ ~forceAudio

\* Lines 724-750: download and parse the stored content; stop when it has audio.
Load(r) ==
    /\ At(r, "load")
    /\ LET obj == store[ContentKey(run[r].date)]
       IN  \E ok \in Oks :
             IF ~ok \/ obj.kind = "none" \/ ~UnmarshalOK(obj)
             THEN run' = [run EXCEPT ![r].pc = "ret"]
             ELSE LET c == Unmarshal(obj)
                      rec == [run[r] EXCEPT !.content = c,
                                            !.podcastContent = c.podcast,
                                            !.introContent = c.intro]
                  IN  run' = [run EXCEPT ![r] =
                                IF AlreadyComplete(c, run[r].forceAudio)
                                THEN [rec EXCEPT !.pc = "ret"]
                                ELSE ToSynth(rec, c.podcast.body)]
    /\ obs' = [obs EXCEPT ![r].calls = @ \cup {"get"}]
    /\ UNCHANGED <<isProcessing, lastProcessed, clock, store, site, crashed, quota, faulty>>

\* GetSpeakerVoice: any speaker but the two is an error.
ValidSpeakerAny(speaker) == TRUE

ValidSpeaker(speaker) == speaker \in {Male, Female}

\* Lines 759, 782-784: after the call of a turn, failed or not, the range
\* loop moves on to the next line.
AfterSynthRetry(lines, k, done) == IF done THEN NextTurn(lines, k + 1) ELSE k

AfterSynth(lines, k, done) == NextTurn(lines, k + 1)

\* Lines 780-785: `if err != nil { continue }`, else append(audioSegments, audio).
AppendSegmentOrReset(audioSegments, done, audio) ==
    IF done THEN Append(audioSegments, audio) ELSE <<>>

AppendSegment(audioSegments, done, audio) ==
    IF done THEN Append(audioSegments, audio) ELSE audioSegments

\* Lines 759-786: one turn of the synthesis loop; a failed call drops the turn.
Synth(r) ==
    /\ At(r, "synth")
    /\ LET conversation == run[r].lines[run[r].k]
           speaker == SpeakerOf(conversation)
           text == TurnText(conversation)
       IN  \E ok \in Oks :
             LET done == ok /\ ValidSpeaker(speaker)
                 k == AfterSynth(run[r].lines, run[r].k, done)
                 segs == AppendSegment(run[r].audioSegments, done, Segment(text, speaker))
             IN  /\ run' = [run EXCEPT ![r].audioSegments = segs, ![r].k = k,
                              ![r].pc = IF k = 0 THEN AfterTurns(segs) ELSE "synth"]
                 /\ obs' = [obs EXCEPT ![r].calls = @ \cup {"synth"},
                              ![r].synthCalls =
                                  Append(@, [text |-> text, speaker |-> speaker,
                                             ok |-> done])]
    /\ UNCHANGED <<isProcessing, lastProcessed, clock, store, site, crashed, quota, faulty>>


\* ------------------------------------------------------------- mergeAudioBytes
\* The temporary directory of one call: tempDir (it exists), the segment
\* files written so far (segFiles: name and bytes), the manifest filelist.txt
\* (fileList: the names in the order written) and merged.mp3 (merged).

\* Where a return of mergeAudioBytes continues: line 796 of the pipeline, or
\* the caller of a direct call.
MergeReturnPcFatal(rec, err) ==
    IF rec.via = "direct" THEN "returned" ELSE IF err THEN "ret" ELSE "upload"

MergeReturnPc(rec, err) ==
    IF rec.via = "direct" THEN "returned" ELSE IF err THEN "intro" ELSE "upload"

\* A return that cleans up only after a successful read-back.
MergeReturnCleanOnSuccess(rec, data, err) ==
    IF err
    THEN [rec EXCEPT !.mergedAudio = data, !.mergeErr = err,
                     !.pc = MergeReturnPc(rec, err)]
    ELSE [rec EXCEPT !.tempDir = FALSE, !.fileList = <<>>, !.segFiles = <<>>,
                     !.merged = <<>>, !.mergedAudio = data, !.mergeErr = err,
                     !.pc = MergeReturnPc(rec, err)]

\* A return of mergeAudioBytes: the deferred fileList.Close() and
\* os.RemoveAll(tempDir) run, then the caller has (data, err).
MergeReturn(rec, data, err) ==
    [rec EXCEPT !.tempDir = FALSE, !.fileList = <<>>, !.segFiles = <<>>,
                !.merged = <<>>, !.mergedAudio = data, !.mergeErr = err,
                !.pc = MergeReturnPc(rec, err)]

\* Lines 840-844: os.MkdirTemp; on an error nothing was created.
MkdirTemp(r) ==
    /\ At(r, "m_mkdir")
    /\ \E ok \in Oks :
          run' = [run EXCEPT ![r] =
                    IF ok THEN [run[r] EXCEPT !.tempDir = TRUE, !.pc = "m_create"]
                    ELSE [run[r] EXCEPT !.mergedAudio = <<>>, !.mergeErr = TRUE,
                                        !.pc = MergeReturnPc(run[r], TRUE)]]
    /\ UNCHANGED <<isProcessing, lastProcessed, clock, store, site, crashed, quota, faulty, obs>>

\* Lines 846-851: os.Create(filelist.txt).
CreateFileList(r) ==
    /\ At(r, "m_create")
    /\ \E ok \in Oks :
          run' = [run EXCEPT ![r] =
                    IF ok
                    THEN [run[r] EXCEPT !.pc = IF Len(run[r].audioSegments) = 0
                                               THEN "m_ffmpeg" ELSE "m_write"]
                    ELSE MergeReturn(run[r], <<>>, TRUE)]
    /\ UNCHANGED <<isProcessing, lastProcessed, clock, store, site, crashed, quota, faulty, obs>>

\* The name of the i-th segment file, fmt.Sprintf("seg%d.mp3", i), i from 0.
SegPath(i) == <<"seg", i>>

\* fmt.Fprintf(fileList, "file '%s'\n", segPath): one more manifest line.
ManifestPrepend(fileList, segPath) == <<segPath>> \o fileList

ManifestAdd(fileList, segPath) == Append(fileList, segPath)

\* os.WriteFile(segPath, segment): creates the file or replaces its content.
WriteFile(files, path, data) ==
    IF \E j \in 1 .. Len(files) : files[j].name = path
    THEN [j \in 1 .. Len(files) |->
            IF files[j].name = path THEN [name |-> path, data |-> data] ELSE files[j]]
    ELSE Append(files, [name |-> path, data |-> data])

\* Lines 854-861: one iteration of the loop over audioSegments.
WriteSegment(r) ==
    /\ At(r, "m_write")
    /\ LET i == Len(run[r].fileList)
           segPath == SegPath(i)
           last == i + 1 = Len(run[r].audioSegments)
       IN  \E ok \in Oks :
             run' = [run EXCEPT ![r] =
                       IF ok
                       THEN [run[r] EXCEPT
                               !.segFiles = WriteFile(@, segPath, run[r].audioSegments[i + 1]),
                               !.fileList = ManifestAdd(@, segPath),
                               !.pc = IF last THEN "m_ffmpeg" ELSE "m_write"]
                       ELSE MergeReturn(run[r], <<>>, TRUE)]
    /\ UNCHANGED <<isProcessing, lastProcessed, clock, store, site, crashed, quota, faulty, obs>>

\* ffmpeg -f concat -i filelist.txt -c copy merged.mp3: the streams of the
\* listed files, in the order the manifest lists them.
FileData(files, path) == (CHOOSE j \in 1 .. Len(files) : files[j].name = path)
Concat(fileList, files) ==
    [j \in 1 .. Len(fileList) |-> files[FileData(files, fileList[j])].data]

\* Lines 864-868: cmd.Run(); an error of the command is returned.
RunFfmpeg(r) ==
    /\ At(r, "m_ffmpeg")
    /\ \E ok \in Oks :
          run' = [run EXCEPT ![r] =
                    IF ok
                    THEN [run[r] EXCEPT !.merged = Concat(run[r].fileList, run[r].segFiles),
                                        !.pc = "m_read"]
                    ELSE MergeReturn(run[r], <<>>, TRUE)]
    /\ UNCHANGED <<isProcessing, lastProcessed, clock, store, site, crashed, quota, faulty, obs>>

\* Line 869: return os.ReadFile(outPath).
ReadMerged(r) ==
    /\ At(r, "m_read")
    /\ \E ok \in Oks :
          run' = [run EXCEPT ![r] =
                    IF ok THEN MergeReturn(run[r], run[r].merged, FALSE)
                    ELSE MergeReturn(run[r], <<>>, TRUE)]
    /\ UNCHANGED <<isProcessing, lastProcessed, clock, store, site, crashed, quota, faulty, obs>>

\* ------------------------------------------------------------- after the merge
\* Lines 799-805: upload the merged audio, keep the locator on success.
UploadAudio(r) ==
    /\ At(r, "upload")
    /\ LET mergedAudioKey == MergedAudioKey(run[r].date)
       IN  \E put \in Oks, signed \in Oks :
             LET res == UploadFile(mergedAudioKey, put, put /\ signed)
             IN  /\ store' = IF put
                             THEN [store EXCEPT ![mergedAudioKey] =
                                     [kind |-> "mp3", data |-> run[r].mergedAudio]]
                             ELSE store
                 /\ run' = [run EXCEPT ![r].content.audioUrl =
                                           IF res.err THEN @ ELSE res.url,
                                       ![r].pc = "intro"]
                 /\ obs' = [obs EXCEPT
                              ![r].calls = @ \cup {"putAudio"},
                              ![r].ok = @ \cup (IF res.err THEN {} ELSE {"putAudio"}),
                              ![r].puts = Append(@, [name |-> mergedAudioKey,
                                                     written |-> put,
                                                     signed |-> put /\ signed,
                                                     url |-> res.url,
                                                     err |-> res.err])]
    /\ UNCHANGED <<isProcessing, lastProcessed, clock, site, crashed, quota, faulty>>

\* The intro narration with the upload of lines 814-822 enabled: the audio is
\* stored under the intro key and its locator becomes the audioFiles list.
IntroSynthUpload(r) ==
    /\ At(r, "intro")
    /\ LET key == IntroAudioKey(run[r].date)
       IN  \E ok \in Oks :
             /\ store' = IF ok
                         THEN [store EXCEPT ![key] =
                                 [kind |-> "mp3",
                                  data |-> <<Segment(run[r].introContent.body, Male)>>]]
                         ELSE store
             /\ run' = [run EXCEPT ![r].pc = "final",
                                   ![r].content.audioFiles =
                                       IF ok THEN <<PresignedURL(key)>> ELSE @]
             /\ obs' = [obs EXCEPT ![r].calls = @ \cup {"synth"},
                                   ![r].introCalls =
                                       Append(@, [text |-> run[r].introContent.body,
                                                  speaker |-> Male, ok |-> ok])]
    /\ UNCHANGED <<isProcessing, lastProcessed, clock, site, crashed, quota, faulty>>

\* Lines 809-813: the intro narration; the audio is dropped and an error is
\* only logged, so both outcomes continue alike.
IntroSynth(r) ==
    /\ At(r, "intro")
    /\ run' = [run EXCEPT ![r].pc = "final"]
    /\ \E ok \in Oks :
          obs' = [obs EXCEPT ![r].calls = @ \cup {"synth"},
                            ![r].introCalls =
                                Append(@, [text |-> run[r].introContent.body,
                                           speaker |-> Male, ok |-> ok])]
    /\ UNCHANGED <<isProcessing, lastProcessed, clock, store, site, crashed, quota, faulty>>

\* Lines 824-834: marshal the content object and write it back.
PutFinal(r) ==
    /\ At(r, "final")
    /\ \E ok \in Oks :
          /\ store' = IF ok
                      THEN [store EXCEPT ![ContentKey(run[r].date)] =
                                             Marshal(run[r].content)]
                      ELSE store
          /\ obs' = [obs EXCEPT ![r].calls = @ \cup {"putContent", "writeBack"},
                                ![r].ok = @ \cup (IF ok THEN {"putFinal"} ELSE {})]
    /\ run' = [run EXCEPT ![r].pc = "ret"]
    /\ UNCHANGED <<isProcessing, lastProcessed, clock, site, crashed, quota, faulty>>

\* The deferred function of lines 601-604, on a return and on a panic alike;
\* an unrecovered panic in the goroutine then ends the process.
FinishKeepFlag(r) ==
    /\ ~crashed
    /\ run[r].pc \in {"ret", "panic"}
    /\ clock' = clock + 1
    /\ lastProcessed' = clock + 1
    /\ crashed' = (run[r].pc = "panic")
    /\ run' = [run EXCEPT ![r].pc =
                 IF run[r].pc = "panic" THEN "panicked"
                 ELSE IF run[r].via = "http" THEN "handler" ELSE "done"]
    /\ UNCHANGED <<isProcessing, store, site, quota, faulty, obs>>

Finish(r) ==
    /\ ~crashed
    /\ run[r].pc \in {"ret", "panic"}
    /\ isProcessing' = FALSE
    /\ clock' = clock + 1
    /\ lastProcessed' = clock + 1
    /\ crashed' = (run[r].pc = "panic")
    /\ run' = [run EXCEPT ![r].pc =
                 IF run[r].pc = "panic" THEN "panicked"
                 ELSE IF run[r].via = "http" THEN "handler" ELSE "done"]
    /\ UNCHANGED <<store, site, quota, faulty, obs>>

\* The deferred function of the goroutine processHandler started (323-325).
HandlerDone(r) ==
    /\ At(r, "handler")
    /\ isProcessing' = FALSE
    /\ run' = [run EXCEPT ![r].pc = "done"]
    /\ UNCHANGED <<lastProcessed, clock, store, site, crashed, quota, faulty, obs>>

Step(r) ==
    \/ processHandler(r)
    \/ ProcessHackerNews(r)
    \/ Begin(r)
    \/ Exists(r)
    \/ Fetch(r)
    \/ Story(r)
    \/ Podcast(r)
    \/ Blog(r)
    \/ Intro(r)
    \/ PutText(r)
    \/ Load(r)
    \/ Synth(r)
    \/ MkdirTemp(r)
    \/ CreateFileList(r)
    \/ WriteSegment(r)
    \/ RunFfmpeg(r)
    \/ ReadMerged(r)
    \/ UploadAudio(r)
    \/ IntroSynth(r)
    \/ PutFinal(r)
    \/ Finish(r)
    \/ HandlerDone(r)

Next == \E r \in Runs : Step(r)

Spec == Init /\ [][Next]_vars

\* One run over every stored state and over a zero-length content object.
InitZero ==
    /\ InitCommon
    /\ store \in InitStores
                 \cup { [key \in Keys |->
                          IF key = ContentKey(d) THEN ZeroObject ELSE NoObject]
                        : d \in Dates }
    /\ site \in 0 .. MaxStories
    /\ quota = 1
    /\ faulty = TRUE

SpecZero == InitZero /\ [][Next]_vars

\* A bucket two deployments share: next to this server's objects of Today
\* it holds the complete artifact the other environment made for Today (its
\* merged audio is the object "audio/<date>-complete.mp3", the key has no
\* environment in it) and this environment's complete artifact of Yesterday.
SharedStore(s) ==
    [key \in Keys |->
        IF key = ContentKeyIn(OtherEnv, Today)
        THEN Marshal(OldContent(PresignedURL(MergedAudioKey(Today))))
        ELSE IF key = MergedAudioKey(Today) THEN OldAudio
        ELSE IF key = ContentKey(Yesterday)
        THEN Marshal(OldContent(PresignedURL(MergedAudioKey(Yesterday))))
        ELSE IF key = MergedAudioKey(Yesterday) THEN OldAudio
        ELSE s[key]]

InitShared ==
    /\ InitCommon
    /\ store \in {SharedStore(s) : s \in InitStores}
    /\ site = 1
    /\ quota = 1
    /\ faulty = TRUE

SpecShared == InitShared /\ [][Next]_vars

\* ------------------------------------------------------------- delete-content
\* Whether no pipeline run is between its trigger and its return.
NoRunInFlight ==
    \A q \in Runs :
        run[q].via \in {"http", "export"} => run[q].pc \in {"handler", "done", "panicked"}

\* The names deleteContentHandler removes, in the order of lines 569-583.
DeleteNames(date) ==
    <<contentObjectName(date), audioObjectName(date), oldAudioObjectName(date)>>

\* deleteContentHandler (DELETE /api/v1/content), lines 549-555: a request
\* without date is answered 400.
deleteContentHandler(r) ==
    /\ CanStart(r)
    /\ \E date \in Dates \cup {""} :
          run' = [run EXCEPT ![r] =
                    IF date = ""
                    THEN [IdleRun EXCEPT !.via = "delete", !.pc = "answered",
                                         !.response = [status |-> 400]]
                    ELSE [IdleRun EXCEPT !.via = "delete", !.date = date, !.k = 1,
                                         !.pc = "delete"]]
    /\ obs' = [obs EXCEPT ![r].calls = IF NoRunInFlight THEN {"quiet"} ELSE {}]
    /\ clock' = clock + 1
    /\ quota' = quota - 1
    /\ UNCHANGED <<isProcessing, lastProcessed, store, site, crashed, faulty>>

\* Lines 569-592: one DeleteFile call; its error is only logged.  After the
\* last one the handler answers 200.
DeleteFile(r) ==
    /\ At(r, "delete")
    /\ LET names == DeleteNames(run[r].date)
           name == names[run[r].k]
       IN  /\ \E ok \in Oks :
                store' = IF ok /\ name \in Keys
                         THEN [store EXCEPT ![name] = NoObject]
                         ELSE store
           /\ run' = [run EXCEPT ![r] =
                         IF run[r].k = Len(names)
                         THEN [run[r] EXCEPT !.pc = "answered",
                                             !.response = [status |-> 200]]
                         ELSE [run[r] EXCEPT !.k = @ + 1]]
    /\ UNCHANGED <<isProcessing, lastProcessed, clock, site, crashed, quota, faulty, obs>>

\* ------------------------------------------------------------- queries
\* GetPresignedURL(objectName): the URL is computed from the name alone,
\* whether or not an object of that name is stored.
GetPresignedURL(objectName) == PresignedURL(objectName)

\* getPodcastHandler (GET /api/v1/podcast): the presigned URL of line 350,
\* the download and the parse of the content object, and the answer of
\* lines 387-393.  Each failure is answered 500.
getPodcastHandler(r) ==
    /\ CanStart(r)
    /\ \E d \in Dates \cup {""}, signed \in Oks, ok \in Oks :
          LET date == IF d = "" THEN Today ELSE d
              presignedURL == GetPresignedURL(podcastObjectName(date))
              obj == store[contentObjectName(date)]
              rec == [IdleRun EXCEPT !.via = "podcast", !.date = date, !.pc = "answered"]
          IN  run' = [run EXCEPT ![r] =
                        IF ~signed \/ ~ok \/ obj.kind = "none" \/ ~UnmarshalOK(obj)
                        THEN [rec EXCEPT !.response = [status |-> 500]]
                        ELSE [rec EXCEPT
                                !.content = [intro |-> obj.intro, podcast |-> obj.podcast,
                                             blog |-> obj.blog, audioUrl |-> obj.audioUrl],
                                !.response = [status |-> 200, date |-> date,
                                              intro |-> obj.intro,
                                              content |-> obj.podcast,
                                              audioUrl |-> presignedURL]]]
    /\ obs' = [obs EXCEPT ![r].calls = IF NoRunInFlight THEN {"quiet"} ELSE {}]
    /\ clock' = clock + 1
    /\ quota' = quota - 1
    /\ UNCHANGED <<isProcessing, lastProcessed, store, site, crashed, faulty>>

\* The file names a client asks /audio/:filename for: "<date>-complete.mp3"
\* and "hacker-news-<date>.mp3".
Filenames ==
    {<<d, "complete.mp3">> : d \in Dates} \cup {<<"hacker-news", d, "mp3">> : d \in Dates}

\* serveAudioHandler (GET /audio/:filename), lines 529-543: the object
\* "audio/" + filename, or 404.
serveAudioHandler(r) ==
    /\ CanStart(r)
    /\ \E filename \in Filenames, ok \in Oks :
          LET audioPath == <<"audio">> \o filename
              obj == store[audioPath]
              rec == [IdleRun EXCEPT !.via = "audio", !.pc = "answered"]
          IN  run' = [run EXCEPT ![r] =
                        IF ~ok \/ obj.kind = "none"
                        THEN [rec EXCEPT !.response = [status |-> 404]]
                        ELSE [rec EXCEPT !.response = [status |-> 200, name |-> audioPath,
                                                       data |-> obj.data]]]
    /\ clock' = clock + 1
    /\ quota' = quota - 1
    /\ UNCHANGED <<isProcessing, lastProcessed, store, site, crashed, faulty, obs>>

\* Two requests to the server, each a trigger of the pipeline, a delete or
\* a query, without collaborator failures.
InitApi ==
    /\ InitCommon
    /\ store \in InitStores
    /\ site = 1
    /\ quota = 2
    /\ faulty = FALSE

NextApi ==
    \E r \in Runs :
        \/ Step(r)
        \/ deleteContentHandler(r)
        \/ DeleteFile(r)
        \/ getPodcastHandler(r)
        \/ serveAudioHandler(r)

SpecApi == InitApi /\ [][NextApi]_vars

\* Two overlapping runs on one date, collaborators that do not fail.
InitConc ==
    /\ InitCommon
    /\ store \in InitStores
    /\ site = 1
    /\ quota = 2
    /\ faulty = FALSE

SpecConc == InitConc /\ [][Next]_vars


\* ------------------------------------------------------------- per-item runs
\* A front page of CfgMaxItems stories and no stored artifact: the Generate
\* stage, item by item, up to the write of the text artifact.
InitItems ==
    /\ InitCommon
    /\ store = [key \in Keys |-> NoObject]
    /\ site = CfgMaxItems
    /\ quota = 1
    /\ faulty = TRUE

StepItems(r) ==
    \/ processHandler(r)
    \/ ProcessHackerNews(r)
    \/ Begin(r)
    \/ Exists(r)
    \/ Fetch(r)
    \/ Story(r)
    \/ Podcast(r)
    \/ Blog(r)
    \/ Intro(r)
    \/ PutText(r)
    \/ Finish(r)
    \/ HandlerDone(r)

NextItems == \E r \in Runs : StepItems(r)

SpecItems == InitItems /\ [][NextItems]_vars

\* ------------------------------------------------------------- turn-splitting runs
\* Script lines as characters: M = '男', F = '女', W = the full-width colon.
Utf8(c) ==
    CASE c = "M" -> MaleLabel
      [] c = "F" -> FemaleLabel
      [] c = "W" -> WideColon
      [] c = ":" -> AsciiColon
      [] c = " " -> <<32>>
      [] c = "h" -> <<104>>

RECURSIVE EncodeLine(_)
EncodeLine(l) == IF l = <<>> THEN <<>> ELSE Utf8(Head(l)) \o EncodeLine(Tail(l))

RECURSIVE EncodeScript(_)
EncodeScript(ls) ==
    IF Len(ls) = 0 THEN <<>>
    ELSE IF Len(ls) = 1 THEN EncodeLine(ls[1])
    ELSE EncodeLine(ls[1]) \o <<10>> \o EncodeScript(Tail(ls))

ScriptLines ==
    { <<"M", ":", " ", "h">>, <<"F", "W", "h", " ">>, <<"M", "W", "h">>,
      <<"F", ":", "h">>, <<"h">>, <<>>, <<" ">>, <<"M", ":">>,
      <<" ", "M", ":", "h">>, <<"M", "h">> }

\* "男: h\n女：h\n\n"
ExampleLines == << <<"M", ":", " ", "h">>, <<"F", "W", "h">>, <<>>, <<>> >>

LineSeqs ==
    UNION { [1 .. n -> ScriptLines] : n \in 1 .. MaxLines } \cup {ExampleLines}

TurnScripts == { EncodeScript(ls) : ls \in LineSeqs }

\* An artifact without audio is stored, its script any of TurnScripts: the
\* Decide and Synthesize stages on it.
InitTurns ==
    /\ InitCommon
    /\ \E script \in TurnScripts :
          store = [key \in Keys |->
                     IF key = ContentKey(Today)
                     THEN Marshal([OldContent(EmptyURL) EXCEPT !.podcast = OldText(script)])
                     ELSE NoObject]
    /\ site = 1
    /\ quota = 1
    /\ faulty = TRUE

StepTurns(r) ==
    \/ processHandler(r)
    \/ ProcessHackerNews(r)
    \/ Begin(r)
    \/ Exists(r)
    \/ Load(r)
    \/ Synth(r)
    \/ MkdirTemp(r)
    \/ CreateFileList(r)
    \/ WriteSegment(r)
    \/ RunFfmpeg(r)
    \/ ReadMerged(r)
    \/ UploadAudio(r)
    \/ IntroSynth(r)
    \/ PutFinal(r)
    \/ Finish(r)
    \/ HandlerDone(r)

NextTurns == \E r \in Runs : StepTurns(r)

SpecTurns == InitTurns /\ [][NextTurns]_vars

\* ------------------------------------------------------------- direct merge calls
\* mergeAudioBytes called on every list of at most MaxSegs segments.
SegAlphabet == { Segment(<<97>>, Male), Segment(<<98>>, Female), Segment(<<99>>, Male) }

SegLists == UNION { [1 .. n -> SegAlphabet] : n \in 0 .. MaxSegs }

InitMerge ==
    /\ isProcessing = FALSE
    /\ lastProcessed = 0
    /\ clock = 0
    /\ crashed = FALSE
    /\ store = [key \in Keys |-> NoObject]
    /\ site = 0
    /\ quota = 0
    /\ faulty = TRUE
    /\ obs = [r \in Runs |-> ZeroObs]
    /\ \E segs \in SegLists :
          run = [r \in Runs |->
                   IF r = 1
                   THEN [IdleRun EXCEPT !.pc = "m_mkdir", !.via = "direct",
                                        !.audioSegments = segs]
                   ELSE IdleRun]

StepMerge(r) ==
    \/ MkdirTemp(r)
    \/ CreateFileList(r)
    \/ WriteSegment(r)
    \/ RunFfmpeg(r)
    \/ ReadMerged(r)

NextMerge == \E r \in Runs : StepMerge(r)

SpecMerge == InitMerge /\ [][NextMerge]_vars


\* ------------------------------------------------------------- direct generateText calls
\* generateText, lines 152-181: one iteration of the retry loop.  `backend`
\* holds what CreateChatCompletion answers to attempts 1 .. maxRetries, `att`
\* is the loop variable i, `sleeps` the seconds slept so far.
CreateChatCompletion(r) ==
    /\ At(r, "g_try")
    /\ LET i == run[r].att
           resp == run[r].backend[i + 1]
       IN  run' = [run EXCEPT ![r] =
                     IF AttemptFailed(resp)
                     THEN IF i < maxRetries - 1
                          THEN [run[r] EXCEPT !.att = i + 1,
                                              !.sleeps = Append(@, Backoff(i))]
                          ELSE [run[r] EXCEPT !.att = i + 1, !.genErr = TRUE,
                                              !.genOut = "none", !.pc = "g_done"]
                     ELSE [run[r] EXCEPT !.att = i + 1, !.genErr = FALSE,
                                         !.genOut = resp, !.pc = "g_done"]]
    /\ UNCHANGED <<isProcessing, lastProcessed, clock, store, site, crashed, quota, faulty, obs>>

\* generateText called on every sequence of backend answers.
InitRetry ==
    /\ isProcessing = FALSE
    /\ lastProcessed = 0
    /\ clock = 0
    /\ crashed = FALSE
    /\ store = [key \in Keys |-> NoObject]
    /\ site = 0
    /\ quota = 0
    /\ faulty = TRUE
    /\ obs = [r \in Runs |-> ZeroObs]
    /\ \E resps \in Responses :
          run = [r \in Runs |->
                   IF r = 1
                   THEN [IdleRun EXCEPT !.pc = "g_try", !.via = "direct",
                                        !.backend = resps]
                   ELSE IdleRun]

NextRetry == \E r \in Runs : CreateChatCompletion(r)

SpecRetry == InitRetry /\ [][NextRetry]_vars

\* ------------------------------------------------------------- direct synthesis calls
\* SynthesizeSpeech(ctx, text, speaker) of the TTS service: GetSpeakerVoice
\* first, and the TTS API only for a speaker it accepts.
SynthesizeSpeech(r) ==
    /\ At(r, "s_call")
    /\ \E ok \in Oks :
          LET done == ok /\ ValidSpeaker(run[r].speaker)
          IN  run' = [run EXCEPT ![r].audio =
                                     IF done
                                     THEN <<Segment(run[r].text, run[r].speaker)>>
                                     ELSE <<>>,
                                 ![r].synthErr = ~done,
                                 ![r].pc = "s_done"]
    /\ UNCHANGED <<isProcessing, lastProcessed, clock, store, site, crashed, quota, faulty, obs>>

\* The speakers a caller may pass: the two voices, and others.
Speakers == {Male, Female, "narrator", "Male", ""}
SynthTexts == {<<>>, <<104>>, <<104, 105>>}

\* Either a pipeline run on a stored artifact without audio, or one direct
\* call of the synthesizer with any text and speaker.
InitSynth ==
    \/ /\ InitCommon
       /\ store = [key \in Keys |->
                     IF key = ContentKey(Today) THEN Marshal(OldContent(EmptyURL))
                     ELSE NoObject]
       /\ site = 1
       /\ quota = 1
       /\ faulty = TRUE
    \/ /\ isProcessing = FALSE
       /\ lastProcessed = 0
       /\ clock = 0
       /\ crashed = FALSE
       /\ store = [key \in Keys |-> NoObject]
       /\ site = 0
       /\ quota = 0
       /\ faulty = TRUE
       /\ obs = [r \in Runs |-> ZeroObs]
       /\ \E text \in SynthTexts, speaker \in Speakers :
             run = [r \in Runs |->
                      IF r = 1
                      THEN [IdleRun EXCEPT !.pc = "s_call", !.via = "direct",
                                           !.text = text, !.speaker = speaker]
                      ELSE IdleRun]

NextSynth == \E r \in Runs : Step(r) \/ SynthesizeSpeech(r)

SpecSynth == InitSynth /\ [][NextSynth]_vars

\* ------------------------------------------------------------- direct GetStoryContent calls
\* GetStoryContent: two goroutines (part "article" runs fetchArticle, part
\* "comments" runs fetchComments) and the caller, which receives from
\* articleCh, then from commentsCh, then polls errCh.
Parts == {"article", "comments"}

\* make(chan string, 1) twice and make(chan error, 2), lines 101-103.
CapOne(c) == 1

Cap(c) == IF c = "err" THEN 2 ELSE 1

\* How fetchArticle / fetchComments can end: http.NewRequest fails, client.Do
\* fails, the status is not 200, io.ReadAll fails, goquery fails to parse or
\* to extract (comments only), or the text is there.
FetchOutcomes(g) ==
    {"request", "transport", "status", "read", "ok"}
    \cup (IF g = "comments" THEN {"parse"} ELSE {})

\* Lines 170-200 and 207-249: a failed client.Do and a status other than 200
\* are logged and answered with ("", nil); the other failures return an error.
FetchReturnsError(outcome) == outcome \in {"request", "read", "parse"}

PartBodies(g) == IF g = "article" THEN {<<97>>, <<97, 98, 99, 100, 101>>} ELSE {<<99>>}

\* Lines 107 and 117: the fetch of one goroutine returns.
fetchPart(r, g) ==
    /\ ~crashed
    /\ run[r].part[g].pc = "fetch"
    /\ \E outcome \in FetchOutcomes(g), body \in PartBodies(g) :
          run' = [run EXCEPT ![r].part[g] =
                    IF FetchReturnsError(outcome)
                    THEN [pc |-> "send_err", val |-> <<>>]
                    ELSE [pc |-> "send_res",
                          val |-> IF outcome = "ok" THEN body ELSE <<>>]]
    /\ UNCHANGED <<isProcessing, lastProcessed, clock, store, site, crashed, quota, faulty, obs>>

\* Lines 109 and 119: errCh <- err; a send waits while the buffer is full.
SendErr(r, g) ==
    /\ ~crashed
    /\ run[r].part[g].pc = "send_err"
    /\ Len(run[r].ch["err"]) < Cap("err")
    /\ run' = [run EXCEPT ![r].ch["err"] = Append(@, g),
                          ![r].part[g].pc = "send_res"]
    /\ UNCHANGED <<isProcessing, lastProcessed, clock, store, site, crashed, quota, faulty, obs>>

\* Lines 110, 113, 120, 123: articleCh <- article / commentsCh <- comments;
\* the goroutine ends after it.
SendResult(r, g) ==
    /\ ~crashed
    /\ run[r].part[g].pc = "send_res"
    /\ Len(run[r].ch[g]) < Cap(g)
    /\ run' = [run EXCEPT ![r].ch[g] = Append(@, run[r].part[g].val),
                          ![r].part[g].pc = "done"]
    /\ UNCHANGED <<isProcessing, lastProcessed, clock, store, site, crashed, quota, faulty, obs>>

\* Line 127: article := <-articleCh.
RecvArticle(r) ==
    /\ At(r, "c_recv_article")
    /\ run[r].ch["article"] # <<>>
    /\ run' = [run EXCEPT ![r].article = Head(run[r].ch["article"]),
                          ![r].ch["article"] = Tail(@),
                          ![r].pc = "c_recv_comments"]
    /\ UNCHANGED <<isProcessing, lastProcessed, clock, store, site, crashed, quota, faulty, obs>>

\* Line 128: comments := <-commentsCh.
RecvComments(r) ==
    /\ At(r, "c_recv_comments")
    /\ run[r].ch["comments"] # <<>>
    /\ run' = [run EXCEPT ![r].comments = Head(run[r].ch["comments"]),
                          ![r].ch["comments"] = Tail(@),
                          ![r].pc = "c_select"]
    /\ UNCHANGED <<isProcessing, lastProcessed, clock, store, site, crashed, quota, faulty, obs>>

\* Lines 149-151, 158-160: text[:maxTokens*4] when it is longer.
Truncate(text, maxTokens) ==
    IF Len(text) > maxTokens * 4 THEN SubSeq(text, 1, maxTokens * 4) ELSE text

\* Lines 139-164: the parts of the result, each only when it is not empty.
BuildResult(title, article, comments, maxTokens) ==
    (IF title # <<>> THEN <<[tag |-> "title", text |-> title]>> ELSE <<>>)
    \o (IF article # <<>>
        THEN <<[tag |-> "article", text |-> Truncate(article, maxTokens)]>> ELSE <<>>)
    \o (IF comments # <<>>
        THEN <<[tag |-> "comments", text |-> Truncate(comments, maxTokens)]>> ELSE <<>>)

\* Lines 131-164: the non-blocking receive from errCh, then the result.
SelectErr(r) ==
    /\ At(r, "c_select")
    /\ run' = [run EXCEPT ![r] =
                 IF run[r].ch["err"] # <<>>
                 THEN [run[r] EXCEPT !.contentErr = Head(run[r].ch["err"]),
                                     !.ch["err"] = Tail(@),
                                     !.result = <<>>, !.pc = "c_returned"]
                 ELSE [run[r] EXCEPT !.result =
                                         BuildResult(run[r].title, run[r].article,
                                                     run[r].comments, run[r].maxTokens),
                                     !.pc = "c_returned"]]
    /\ UNCHANGED <<isProcessing, lastProcessed, clock, store, site, crashed, quota, faulty, obs>>

\* GetStoryContent called for a story with or without title; the two go
\* statements of lines 106 and 116 have been executed.
InitContent ==
    /\ isProcessing = FALSE
    /\ lastProcessed = 0
    /\ clock = 0
    /\ crashed = FALSE
    /\ store = [key \in Keys |-> NoObject]
    /\ site = 0
    /\ quota = 0
    /\ faulty = TRUE
    /\ obs = [r \in Runs |-> ZeroObs]
    /\ \E title \in {<<>>, <<116>>}, maxTokens \in {1, 2} :
          run = [r \in Runs |->
                   IF r = 1
                   THEN [IdleRun EXCEPT !.pc = "c_recv_article", !.via = "direct",
                                        !.title = title, !.maxTokens = maxTokens,
                                        !.part = [g \in Parts |->
                                                    [pc |-> "fetch", val |-> <<>>]]]
                   ELSE IdleRun]

PartStep(r, g) == fetchPart(r, g) \/ SendErr(r, g) \/ SendResult(r, g)
CallerStep(r) == RecvArticle(r) \/ RecvComments(r) \/ SelectErr(r)

NextContent == \E r \in Runs : CallerStep(r) \/ \E g \in Parts : PartStep(r, g)

\* Every goroutine that can take a step eventually takes one.
SpecContent ==
    /\ InitContent
    /\ [][NextContent]_vars
    /\ \A r \in Runs : WF_vars(CallerStep(r)) /\ \A g \in Parts : WF_vars(PartStep(r, g))

\* ------------------------------------------------------------- fair runs
\* One run on a stored artifact without audio; every goroutine that can take
\* a step eventually takes one, and every collaborator call returns.
InitLive ==
    /\ InitCommon
    /\ store = [key \in Keys |->
                  IF key = ContentKey(Today) THEN Marshal(OldContent(EmptyURL))
                  ELSE NoObject]
    /\ site = 1
    /\ quota = 1
    /\ faulty = TRUE

SpecLive == InitLive /\ [][Next]_vars /\ \A r \in Runs : WF_vars(Step(r))

\* ------------------------------------------------------------- properties
Started(r) == run[r].pc \notin {"idle", "start"}
Returned(r) == run[r].pc \in {"ret", "handler", "done"}
InGenerate(r) ==
    run[r].pc \in {"fetch", "story", "podcast", "blog", "intro_text", "put_text"}
InSynthesize(r) ==
    run[r].pc \in {"synth", "m_mkdir", "m_create", "m_write", "m_ffmpeg", "m_read",
                   "upload", "intro", "final"}
Stored(r) == store[ContentKey(run[r].date)]
HasAudio(obj) == obj.kind = "json" /\ obj.audioUrl # EmptyURL
DecideCalls == {"exists", "get"}

\* C1: a run without force flags on a date whose stored artifact has a
\* non-empty audio locator makes no collaborator call beyond the existence
\* check and the load, and leaves the stored artifact as it was.
C1_CompleteArtifactUntouched ==
    \A r \in Runs :
        (Started(r) /\ ~run[r].force /\ ~run[r].forceAudio /\ HasAudio(obs[r].before))
        => (obs[r].calls \subseteq DecideCalls /\ Stored(r) = obs[r].before)

\* C2: two runs for the same date are never both inside Generate or
\* Synthesize at the same time.
C2_OneRunPerDate ==
    \A r1 \in Runs, r2 \in Runs :
        (r1 # r2 /\ run[r1].date = run[r2].date)
        => ~((InGenerate(r1) \/ InSynthesize(r1)) /\ (InGenerate(r2) \/ InSynthesize(r2)))

\* C3 (as stated): on a date without artifact, a run whose fetch, summaries
\* and podcast, blog and intro generations succeeded leaves a stored artifact
\* with non-empty podcast script, blog text and intro, and with a non-empty
\* audio locator whenever at least one turn was synthesized.
GenerationsSucceeded(r) == "putContent" \in obs[r].calls
SomeTurnSynthesized(r) ==
    \E j \in 1 .. Len(obs[r].synthCalls) : obs[r].synthCalls[j].ok
C4_RunNeverPanics ==
    ~crashed /\ \A r \in Runs : run[r].pc \notin {"panic", "panicked"}


\* The items of a run whose content fetch and summarization both succeeded,
\* in the order they were fetched.
Succeeded(r) == SelectSeq(obs[r].items, LAMBDA it : it.ok)
SucceededBodies(r) == [j \in 1 .. Len(Succeeded(r)) |-> Succeeded(r)[j].text.body]
LoopFinished(r) ==
    Len(run[r].stories) > 0 /\ Len(obs[r].items) = Len(run[r].stories)

\* C5: the summaries handed to podcast and to blog generation are the
\* summaries of exactly the items whose content fetch and summarization
\* succeeded, in fetch order and with nothing in the place of a failed item;
\* failed items do not end the run as long as one item succeeded.
C5_SummariesAreSucceededItems ==
    \A r \in Runs :
        /\ \A j \in 1 .. Len(obs[r].items) : obs[r].items[j].id = j
        /\ run[r].pc \in {"story", "podcast", "blog", "intro_text"}
           => Bodies(run[r].storyTexts) = SucceededBodies(r)
        /\ "podcast" \in obs[r].calls
           => obs[r].podcastPayload = JoinContents(SucceededBodies(r))
        /\ "blog" \in obs[r].calls
           => obs[r].blogPayload = JoinContents(SucceededBodies(r))
        /\ (LoopFinished(r) /\ Len(Succeeded(r)) > 0)
           => (run[r].pc = "podcast" \/ "podcast" \in obs[r].calls)

C5_Witness ==
    \E r \in Runs :
        /\ Len(obs[r].items) = CfgMaxItems
        /\ Len(Succeeded(r)) = CfgMaxItems - 2
        /\ ~obs[r].items[2].ok /\ ~obs[r].items[4].ok
        /\ "blog" \in obs[r].calls
        /\ obs[r].blogPayload =
              StoryBody(1) \o Separator \o StoryBody(3) \o Separator \o StoryBody(5)
        /\ "putText" \in obs[r].ok
        /\ Stored(r).kind = "json"

\* ---- the script read as characters, for the statements about turns
DecodeChar(b) ==
    CASE b = 231 -> "M" [] b = 229 -> "F" [] b = 239 -> "W" [] b = 58 -> ":"
      [] b = 32 -> " " [] b = 10 -> "N" [] OTHER -> "h"

RECURSIVE Decode(_)
Decode(s) ==
    IF s = <<>> THEN <<>>
    ELSE IF Head(s) >= 224 THEN <<DecodeChar(Head(s))>> \o Decode(SubSeq(s, 4, Len(s)))
    ELSE <<DecodeChar(Head(s))>> \o Decode(Tail(s))

RECURSIVE CharLines(_, _)
CharLines(cs, cur) ==
    IF cs = <<>> THEN <<cur>>
    ELSE IF Head(cs) = "N" THEN <<cur>> \o CharLines(Tail(cs), <<>>)
    ELSE CharLines(Tail(cs), Append(cur, Head(cs)))

RECURSIVE Trimmed(_)
Trimmed(l) ==
    IF l = <<>> THEN l
    ELSE IF Head(l) = " " THEN Trimmed(Tail(l))
    ELSE IF l[Len(l)] = " " THEN Trimmed(SubSeq(l, 1, Len(l) - 1))
    ELSE l

\* The turns of a script: its lines with non-empty trimmed content, in order.
TurnLines(script) == SelectSeq(CharLines(Decode(script), <<>>), LAMBDA l : Trimmed(l) # <<>>)
Labelled(l) == Len(l) >= 2 /\ l[1] \in {"M", "F"} /\ l[2] \in {":", "W"}
IsMaleLine(l) == Len(l) >= 2 /\ l[1] = "M" /\ l[2] \in {":", "W"}
ExpectedSpeakers(script) ==
    [j \in 1 .. Len(TurnLines(script)) |->
        IF IsMaleLine(TurnLines(script)[j]) THEN Male ELSE Female]
CallSpeakers(r) == [j \in 1 .. Len(obs[r].synthCalls) |-> obs[r].synthCalls[j].speaker]
TurnsDone(r) ==
    run[r].pc \in {"m_mkdir", "m_create", "m_write", "m_ffmpeg", "m_read",
                   "upload", "intro", "final"}

\* C6: the synthesis loop makes one call per script line whose trimmed
\* content is non-empty, in line order, and the speaker of a call is male
\* exactly when its line begins with the male label followed by ':' or by
\* the full-width colon, female otherwise.
C6_TurnsAndSpeakers ==
    \A r \in Runs :
        LET want == ExpectedSpeakers(run[r].podcastContent.body)
            got == CallSpeakers(r)
        IN  /\ TurnsDone(r) => got = want
            /\ run[r].pc = "synth"
               => (Len(got) < Len(want) /\ got = SubSeq(want, 1, Len(got)))

C6_Witness ==
    \E r \in Runs :
        /\ TurnsDone(r)
        /\ run[r].podcastContent.body = EncodeScript(ExampleLines)
        /\ CallSpeakers(r) = <<Male, Female>>

\* C7: for a line that carries a speaker label and a ':' or full-width
\* colon, the text given to the synthesizer is the trimmed rest of the line
\* after the separator.
C7_LabelAndSeparatorStripped ==
    \A r \in Runs :
        \A j \in 1 .. Len(obs[r].synthCalls) :
            LET l == TurnLines(run[r].podcastContent.body)[j]
            IN  Labelled(l)
                => obs[r].synthCalls[j].text = EncodeLine(Trimmed(SubSeq(l, 3, Len(l))))

\* C8: mergeAudioBytes writes segment i to the i-th temporary file, lists
\* the files in the manifest in the order 0 .. n-1, and returns the
\* concatenation of the segments in that order.
C8_MergeKeepsOrder ==
    \A r \in Runs :
        LET segs == run[r].audioSegments
            n == Len(run[r].fileList)
        IN  /\ run[r].pc \in {"m_write", "m_ffmpeg", "m_read"}
               => /\ n <= Len(segs)
                  /\ Len(run[r].segFiles) = n
                  /\ \A i \in 0 .. n - 1 :
                        /\ run[r].fileList[i + 1] = <<"seg", i>>
                        /\ run[r].segFiles[i + 1] =
                              [name |-> <<"seg", i>>, data |-> segs[i + 1]]
            /\ run[r].pc \in {"m_ffmpeg", "m_read"} => n = Len(segs)
            /\ run[r].pc = "m_read" => run[r].merged = segs
            /\ (run[r].pc \in {"returned", "upload"} /\ ~run[r].mergeErr)
               => run[r].mergedAudio = segs

C8_Witness ==
    \E r \in Runs :
        /\ run[r].pc = "returned" /\ ~run[r].mergeErr
        /\ run[r].audioSegments =
              <<Segment(<<97>>, Male), Segment(<<98>>, Female), Segment(<<99>>, Male)>>
        /\ run[r].mergedAudio = run[r].audioSegments

OwnRecord(r, obj) ==
    /\ obj.kind = "json"
    /\ obj.intro = run[r].introContent /\ obj.intro.gen = r
    /\ obj.podcast = run[r].podcastContent /\ obj.podcast.gen = r
    /\ obj.blog = run[r].blogContent /\ obj.blog.gen = r
    /\ obj.audioUrl \in {EmptyURL, PresignedURL(MergedAudioKey(run[r].date)),
                         RelativePath(MergedAudioKey(run[r].date))}
    /\ obj.audioFiles = <<>>

C10_ForcedRunStoresWholeRecords ==
    \A r \in Runs :
        (Started(r) /\ run[r].pc # "exists" /\ run[r].force)
        => (Stored(r) = obs[r].before \/ OwnRecord(r, Stored(r)))

C10_Witness ==
    \E r \in Runs :
        /\ run[r].force /\ Returned(r)
        /\ HasAudio(obs[r].before)
        /\ Stored(r) # obs[r].before
        /\ OwnRecord(r, Stored(r))
        /\ Stored(r).audioUrl # EmptyURL

\* ---- the Decide stage
GenerateSteps == {"fetch", "content", "summarize", "podcast", "blog", "intro"}
WentToGenerate(r) == run[r].pc = "fetch" \/ "fetch" \in obs[r].calls
\* ToSynth has run: strings.Split never returns an empty list.
ReachedSynthesize(r) == run[r].lines # <<>>
Decided(r) == Started(r) /\ run[r].pc # "exists"

\* C11: a run goes to Generate exactly when no artifact is stored for its
\* date or forceContent is set; otherwise it loads the artifact, never enters
\* Synthesize when the audio locator is non-empty and forceAudio is not set,
\* and when it enters Synthesize it does so with the stored podcast script
\* and intro and without a fetcher or generator call.
C11_DecideRouting ==
    \A r \in Runs :
        Decided(r)
        => LET absent == obs[r].before.kind = "none"
           IN  /\ WentToGenerate(r) <=> (absent \/ run[r].force)
               /\ ~(absent \/ run[r].force)
                  => /\ run[r].pc = "load" \/ "get" \in obs[r].calls
                     /\ obs[r].calls \cap GenerateSteps = {}
                     /\ (HasAudio(obs[r].before) /\ ~run[r].forceAudio)
                        => ~ReachedSynthesize(r)
                     /\ ReachedSynthesize(r)
                        => /\ run[r].podcastContent = obs[r].before.podcast
                           /\ run[r].introContent = obs[r].before.intro

\* C12: a run without forceContent on a date that has a stored artifact
\* leaves the stored intro, podcast script and blog text as they were.
C12_TextsKeptWithoutForce ==
    \A r \in Runs :
        (Started(r) /\ ~run[r].force /\ obs[r].before.kind = "json")
        => /\ Stored(r).kind = "json"
           /\ Stored(r).intro = obs[r].before.intro
           /\ Stored(r).podcast = obs[r].before.podcast
           /\ Stored(r).blog = obs[r].before.blog

\* ---- the retry wrapper
GenDone(r) == run[r].pc = "g_done"
InGenerateText(r) == run[r].pc \in {"g_try", "g_done"}
\* The attempts of the call that did not yield a response with a choice.
NoChoiceOrError(r, j) == run[r].backend[j] \in {"err", "nochoice"}

\* C13: a call of the text generator makes at most 3 attempts; it makes a
\* further attempt only after an attempt that failed (request error or a
\* response without choice), returns what the first attempt that did not
\* fail yielded, and returns an error exactly when all 3 attempts failed.
C13_AtMostThreeAttempts ==
    \A r \in Runs :
        InGenerateText(r)
        => /\ run[r].att <= maxRetries
           /\ \A j \in 1 .. run[r].att - 1 : NoChoiceOrError(r, j)
           /\ run[r].pc = "g_try"
              => /\ run[r].att < maxRetries
                 /\ \A j \in 1 .. run[r].att : NoChoiceOrError(r, j)
           /\ GenDone(r)
              => /\ run[r].att >= 1
                 /\ run[r].genErr <=> \A j \in 1 .. maxRetries : NoChoiceOrError(r, j)
                 /\ run[r].genErr => run[r].att = maxRetries
                 /\ ~run[r].genErr
                    => /\ ~NoChoiceOrError(r, run[r].att)
                       /\ run[r].genOut = run[r].backend[run[r].att]
                 /\ generateText(run[r].backend) =
                       [err |-> run[r].genErr, out |-> run[r].genOut,
                        attempts |-> run[r].att, sleeps |-> run[r].sleeps]

C13_Witness ==
    \E r \in Runs :
        /\ GenDone(r)
        /\ run[r].backend = <<"err", "nochoice", "text">>
        /\ run[r].att = 3 /\ ~run[r].genErr /\ run[r].genOut = "text"
        /\ run[r].sleeps = <<2, 4>>

\* C14: an attempt that yields a response without choice or a choice with
\* empty text is followed by a retry, and a call that returns without error
\* returns a non-empty text.
C14_EmptyResultRetried ==
    \A r \in Runs :
        /\ GenDone(r) /\ ~run[r].genErr => run[r].genOut = "text"
        /\ GenDone(r) /\ run[r].att < maxRetries
           => run[r].backend[run[r].att] \notin {"nochoice", "empty"}

\* ---- failures in the Generate stage
\* A generation step of run r was called and returned an error: the local
\* variable it assigns still has its zero value from line 613.
PodcastFailed(r) == "podcast" \in obs[r].calls /\ run[r].podcastContent.gen # r
BlogFailed(r) == "blog" \in obs[r].calls /\ run[r].blogContent.gen # r
IntroFailed(r) == "intro" \in obs[r].calls /\ run[r].introContent.gen # r
WriteCalls == {"putContent", "putAudio", "writeBack"}

\* C15: when podcast, blog or intro generation returns an error the run
\* ends there: no later generation step, no synthesis call and no store
\* write is made, and the store holds what it held before the run.
C15_FailedGenerationEndsRun ==
    \A r \in Runs :
        /\ (PodcastFailed(r) \/ BlogFailed(r) \/ IntroFailed(r))
           => /\ Returned(r)
              /\ ~ReachedSynthesize(r)
              /\ obs[r].calls \cap (WriteCalls \cup {"synth"}) = {}
              /\ Stored(r) = obs[r].before
              /\ store[MergedAudioKey(run[r].date)] \in {NoObject, OldAudio}
        /\ PodcastFailed(r) => obs[r].calls \cap {"blog", "intro"} = {}
        /\ BlogFailed(r) => "intro" \notin obs[r].calls

C15_Witness ==
    \E r \in Runs :
        /\ BlogFailed(r) /\ ~PodcastFailed(r)
        /\ run[r].force /\ HasAudio(obs[r].before)
        /\ Returned(r)
        /\ Stored(r) = obs[r].before

\* C16: when GetTopStories returns no story, or no story of the list gets a
\* summary, the run ends without a podcast, blog or intro generation call,
\* without a synthesis call and without a store write.
NoItems(r) ==
    /\ "fetch" \in obs[r].calls
    /\ run[r].pc \notin {"panic", "panicked"}
    /\ run[r].stories = <<>>
NoSummary(r) == LoopFinished(r) /\ Len(Succeeded(r)) = 0

C16_NothingToSummarizeEndsRun ==
    \A r \in Runs :
        (NoItems(r) \/ NoSummary(r))
        => /\ Returned(r)
           /\ obs[r].calls \cap ({"podcast", "blog", "intro", "synth"} \cup WriteCalls) = {}
           /\ Stored(r) = obs[r].before

C16_Witness ==
    \E r \in Runs :
        /\ NoSummary(r) /\ Len(obs[r].items) = MaxStories
        /\ Returned(r)
        /\ Stored(r) = obs[r].before

\* ---- failures in the Synthesize stage
\* The audio of the synthesis calls of run r that succeeded, in call order.
SynthesizedSegments(r) ==
    LET okCalls == SelectSeq(obs[r].synthCalls, LAMBDA c : c.ok)
    IN  [j \in 1 .. Len(okCalls) |-> Segment(okCalls[j].text, okCalls[j].speaker)]

\* C17: a synthesis call that fails drops its turn only: the run stays in
\* the loop until every turn of the script has had its call, and the
\* segments collected for the merge are the audio of the calls that
\* succeeded, in script line order.
C17_FailedTurnDropped ==
    \A r \in Runs :
        /\ ReachedSynthesize(r) => run[r].audioSegments = SynthesizedSegments(r)
        /\ (ReachedSynthesize(r) /\ run[r].pc # "synth")
           => Len(obs[r].synthCalls) = Len(TurnLines(run[r].podcastContent.body))
        /\ run[r].pc \in {"m_mkdir", "m_create", "m_write", "m_ffmpeg", "m_read"}
           => Len(run[r].audioSegments) > 0

C17_Witness ==
    \E r \in Runs :
        /\ run[r].pc = "m_mkdir"
        /\ Len(obs[r].synthCalls) = 2
        /\ ~obs[r].synthCalls[1].ok /\ obs[r].synthCalls[2].ok
        /\ run[r].audioSegments =
              <<Segment(obs[r].synthCalls[2].text, obs[r].synthCalls[2].speaker)>>

\* The merge of run r returned an error, or the upload of the merged audio did.
MergeFailed(r) == run[r].via # "direct" /\ run[r].mergeErr
UploadFailed(r) == "putAudio" \in obs[r].calls /\ "putAudio" \notin obs[r].ok
AfterAudio(r) == run[r].pc \in {"intro", "final"} \/ "writeBack" \in obs[r].calls
\* content.AudioURL on entering Synthesize: empty after Generate (line 705),
\* the stored locator after the load of line 733.
EntryLocator(r) == IF WentToGenerate(r) THEN EmptyURL ELSE obs[r].before.audioUrl

\* C18 (as stated): when the merge or the upload of the merged audio fails,
\* the run goes on to the final write-back and the artifact it writes back
\* has an empty audio locator, in fresh, forceContent and forceAudio runs.
C18_FailedAudioLeavesLocatorEmpty ==
    \A r \in Runs :
        (MergeFailed(r) \/ UploadFailed(r))
        => /\ AfterAudio(r)
           /\ run[r].content.audioUrl = EmptyURL
           /\ "putFinal" \in obs[r].ok => Stored(r).audioUrl = EmptyURL

\* C18 (amended): when the merge or the upload of the merged audio fails,
\* the run goes on to the final write-back and the artifact it writes back
\* has the audio locator the run entered Synthesize with: empty in fresh and
\* forceContent runs, the stored locator in a run that loaded the artifact.
C18_FailedAudioKeepsEntryLocator ==
    \A r \in Runs :
        (MergeFailed(r) \/ UploadFailed(r))
        => /\ AfterAudio(r)
           /\ run[r].content.audioUrl = EntryLocator(r)
           /\ "putFinal" \in obs[r].ok => Stored(r).audioUrl = EntryLocator(r)
           /\ WentToGenerate(r) => run[r].content.audioUrl = EmptyURL

C18_Witness ==
    \E r \in Runs :
        /\ MergeFailed(r) /\ run[r].forceAudio /\ ~run[r].force
        /\ HasAudio(obs[r].before)
        /\ "putFinal" \in obs[r].ok
        /\ Stored(r).audioUrl = obs[r].before.audioUrl

\* C19: every run that enters Synthesize goes on to marshal the content
\* object and call the store with it (lines 824-829), whether or not turns
\* were synthesized, the merge or the upload succeeded, or the intro
\* narration succeeded.
C19_SynthesizeEndsInWriteBack ==
    \A r \in Runs : ReachedSynthesize(r) ~> ("writeBack" \in obs[r].calls)

C19_Witness ==
    \E r \in Runs :
        /\ ReachedSynthesize(r)
        /\ Len(obs[r].synthCalls) > 0
        /\ \A j \in 1 .. Len(obs[r].synthCalls) : ~obs[r].synthCalls[j].ok
        /\ "writeBack" \in obs[r].calls
        /\ Returned(r)

\* ---- the status query
\* processHackerNews of run r has begun and its deferred function has not run.
InFlight(r) == run[r].pc \notin {"idle", "start", "handler", "done", "panicked"}
\* getStatusHandler: the value of "isProcessing" in the answer.
StatusIsProcessing == isProcessing

\* C20: the status query answers isProcessing = true whenever some run has
\* begun and not yet ended, and false when no run is in flight or about to
\* start.
C20_FlagTracksRuns ==
    ~crashed
    => /\ (\E r \in Runs : InFlight(r)) => StatusIsProcessing
       /\ (\A r \in Runs : run[r].pc \in {"idle", "done"}) => ~StatusIsProcessing

\* ---- the end of a run
\* processHackerNews of run r has returned and its deferred function has run.
Ended(r) == run[r].pc \in {"handler", "done"}
\* The exit paths of processHackerNews, by what the run had done when it returned.
ExitPaths == {"complete", "fetch", "nosummary", "generation", "load", "upload", "normal"}
ExitPath(r) ==
    IF "writeBack" \in obs[r].calls
    THEN IF "putFinal" \in obs[r].ok THEN "normal" ELSE "upload"
    ELSE IF "putContent" \in obs[r].calls THEN "upload"
    ELSE IF PodcastFailed(r) \/ BlogFailed(r) \/ IntroFailed(r) THEN "generation"
    ELSE IF "content" \in obs[r].calls THEN "nosummary"
    ELSE IF "fetch" \in obs[r].calls THEN "fetch"
    ELSE IF AlreadyComplete(run[r].content, run[r].forceAudio) THEN "complete"
    ELSE "load"

\* C21: on every return of a run the completion time is recorded and the
\* in-progress flag is cleared: once the run has ended the flag is false and
\* lastProcessed is the time of its return.
C21_EveryExitClearsFlag ==
    \A r \in Runs :
        Ended(r)
        => /\ ExitPath(r) \in ExitPaths
           /\ ~isProcessing
           /\ lastProcessed = clock /\ lastProcessed > 0

C21_Witness ==
    \E r \in Runs :
        /\ run[r].pc = "done" /\ run[r].via = "export"
        /\ ExitPath(r) = "complete"
        /\ ~isProcessing /\ lastProcessed = clock

\* C22: GetTopStories is never called with a zero or negative maxItems:
\* a request with maxItems <= 0 reaches it with the configured default.
C22_FetcherLimitPositive ==
    \A r \in Runs :
        (run[r].pc = "fetch" \/ "fetch" \in obs[r].calls) => run[r].maxItems > 0

\* C23: no synthesis call for a script turn carries an empty text.
C23_NoEmptyTurnSynthesized ==
    \A r \in Runs :
        \A j \in 1 .. Len(obs[r].synthCalls) : obs[r].synthCalls[j].text # <<>>

\* The lines of the script of run r that the loop does not skip.
Turns(r) == SelectSeq(run[r].lines, LAMBDA l : TrimSpace(l) # <<>>)

\* C24: each turn of the script gets exactly one synthesis call, whether the
\* call succeeds or fails: the j-th call is the call of the j-th turn, while
\* the loop runs the calls made are those of the turns before the current
\* line, and after the loop there are as many calls as turns.
C24_OneCallPerTurn ==
    \A r \in Runs :
        ReachedSynthesize(r)
        => LET n == Len(obs[r].synthCalls)
           IN  /\ n <= Len(Turns(r))
               /\ \A j \in 1 .. n :
                     /\ obs[r].synthCalls[j].text = TurnText(Turns(r)[j])
                     /\ obs[r].synthCalls[j].speaker = SpeakerOf(Turns(r)[j])
               /\ run[r].pc = "synth"
                  => /\ n < Len(Turns(r))
                     /\ n = Len(SelectSeq(SubSeq(run[r].lines, 1, run[r].k - 1),
                                          LAMBDA l : TrimSpace(l) # <<>>))
               /\ run[r].pc # "synth" => n = Len(Turns(r))

C24_Witness ==
    \E r \in Runs :
        /\ ReachedSynthesize(r) /\ run[r].pc # "synth"
        /\ Len(Turns(r)) = 2 /\ Len(obs[r].synthCalls) = 2
        /\ ~obs[r].synthCalls[1].ok /\ ~obs[r].synthCalls[2].ok

\* C25: the synthesizer answers every speaker other than the two voices
\* with an error and no audio, and every synthesis call of the pipeline, for
\* a script turn or for the intro, names one of the two voices.
C25_TwoSpeakersOnly ==
    \A r \in Runs :
        /\ (run[r].pc = "s_done" /\ run[r].speaker \notin {Male, Female})
           => (run[r].synthErr /\ run[r].audio = <<>>)
        /\ (run[r].pc = "s_done" /\ ~run[r].synthErr)
           => run[r].audio = <<Segment(run[r].text, run[r].speaker)>>
        /\ \A j \in 1 .. Len(obs[r].synthCalls) :
              obs[r].synthCalls[j].speaker \in {Male, Female}
        /\ \A j \in 1 .. Len(obs[r].introCalls) :
              obs[r].introCalls[j].speaker = Male

C25_Witness ==
    \E r \in Runs :
        /\ run[r].pc = "s_done" /\ run[r].speaker = "narrator"
        /\ run[r].text # <<>>
        /\ run[r].synthErr /\ run[r].audio = <<>>

\* ---- GetStoryContent
InContentCall(r) == run[r].part["article"].pc # "idle"
ContentReturned(r) == run[r].pc = "c_returned"

\* C26: GetStoryContent never returns an error: whatever way the article
\* fetch and the comments fetch fail, it returns a result built from the
\* parts that were fetched, a failed part being empty.
C26_ContentFailsSoft ==
    \A r \in Runs :
        ContentReturned(r)
        => /\ run[r].contentErr = "none"
           /\ run[r].result = BuildResult(run[r].title, run[r].article,
                                          run[r].comments, run[r].maxTokens)

\* A send of a goroutine of the call finds room in the buffer of its channel.
SendsDoNotBlock(r) ==
    \A g \in Parts :
        /\ run[r].part[g].pc = "send_err" => Len(run[r].ch["err"]) < 2
        /\ run[r].part[g].pc = "send_res" => Len(run[r].ch[g]) < 1
BothJoined(r) ==
    ContentReturned(r) => \A g \in Parts : run[r].part[g].pc = "done"

\* C30: in a call of GetStoryContent no goroutine ever waits on a send, the
\* caller has returned only when both goroutines have finished, and every
\* call returns.
C30_BothJoinedAlwaysReturns ==
    /\ [](\A r \in Runs : InContentCall(r) => (SendsDoNotBlock(r) /\ BothJoined(r)))
    /\ \A r \in Runs : InContentCall(r) ~> ContentReturned(r)

C30_Witness ==
    \E r \in Runs :
        /\ ContentReturned(r)
        /\ \A g \in Parts : run[r].part[g].pc = "done"
        /\ run[r].contentErr = "article"
        /\ run[r].ch["err"] = <<"comments">>

\* ---- the order of the steps of a generating run
MergePcs == {"m_mkdir", "m_create", "m_write", "m_ffmpeg", "m_read"}
AllTurnsCalled(r) == Len(obs[r].synthCalls) = Len(Turns(r))

\* C27: in a run that generates text, the text artifact with empty audio
\* fields is in the store before the first synthesis call; the merge starts
\* only after the call of the last turn, the merged audio is uploaded only
\* after the merge returned it, and the artifact with the audio locator is
\* written only by the write-back that follows the upload.
C27_GenerateThenSynthesizeOrder ==
    \A r \in Runs :
        WentToGenerate(r)
        => /\ (ReachedSynthesize(r) \/ "synth" \in obs[r].calls) => "putText" \in obs[r].ok
           /\ (ReachedSynthesize(r) /\ obs[r].synthCalls = <<>> /\ run[r].pc = "synth")
              => /\ Stored(r) = Marshal(run[r].content)
                 /\ Stored(r).audioUrl = EmptyURL /\ Stored(r).audioFiles = <<>>
           /\ run[r].pc \in MergePcs
              => (AllTurnsCalled(r) /\ obs[r].calls \cap {"putAudio", "writeBack"} = {})
           /\ (run[r].pc = "upload" \/ "putAudio" \in obs[r].calls)
              => /\ AllTurnsCalled(r)
                 /\ ~run[r].mergeErr
                 /\ run[r].mergedAudio = run[r].audioSegments
           /\ run[r].pc = "upload" => "writeBack" \notin obs[r].calls
           /\ (OwnRecord(r, Stored(r)) /\ Stored(r).audioUrl # EmptyURL)
              => {"putAudio", "putFinal"} \subseteq obs[r].ok

C27_Witness ==
    \E r \in Runs :
        /\ WentToGenerate(r) /\ Returned(r)
        /\ {"putText", "putAudio", "putFinal"} \subseteq obs[r].ok
        /\ Len(obs[r].synthCalls) = 2
        /\ OwnRecord(r, Stored(r)) /\ Stored(r).audioUrl # EmptyURL
        /\ store[MergedAudioKey(run[r].date)] =
              [kind |-> "mp3", data |-> run[r].audioSegments]

\* C28: the wait before attempt i+1 is i times 2 seconds (2, then 4); there
\* is no wait after the attempt that succeeded and none after the third
\* failed attempt.
C28_LinearBackoff ==
    \A r \in Runs :
        InGenerateText(r)
        => LET waits == IF run[r].pc = "g_try" THEN run[r].att ELSE run[r].att - 1
           IN  /\ run[r].sleeps = [j \in 1 .. waits |-> 2 * j]
               /\ Len(run[r].sleeps) <= maxRetries - 1

C28_Witness ==
    \E r \in Runs :
        /\ GenDone(r) /\ run[r].genErr
        /\ run[r].backend = <<"nochoice", "err", "err">>
        /\ run[r].sleeps = <<2, 4>>

\* C29: between every two consecutive items of the story loop the run
\* sleeps the pacing delay of 2 seconds, whether the earlier item was
\* summarized or skipped.
C29_PacingBetweenItems ==
    \A r \in Runs :
        \A j \in 1 .. Len(obs[r].items) - 1 : obs[r].items[j].sleep = 2

\* ------------------------------------------------------------- C31
\* The temporary directory of a merge call with everything in it.
TempFilesGone(r) ==
    /\ ~run[r].tempDir
    /\ run[r].segFiles = <<>>
    /\ run[r].fileList = <<>>
    /\ run[r].merged = <<>>

\* C31: whenever a run is not inside mergeAudioBytes (before the call and
\* after every return of it, with data or with an error from any step),
\* the temporary directory, the segment files, the manifest and the merged
\* output do not exist.
C31_TempFilesReleased ==
    \A r \in Runs : run[r].pc \notin MergePcs => TempFilesGone(r)

\* A direct call that wrote MaxSegs segment files, ran the concat command,
\* read the output back and returned it.
C31_Witness ==
    \E r \in Runs :
        /\ run[r].pc = "returned" /\ ~run[r].mergeErr
        /\ Len(run[r].audioSegments) = MaxSegs
        /\ run[r].mergedAudio = run[r].audioSegments
        /\ TempFilesGone(r)

\* ------------------------------------------------------------- C32
AfterIntro(r) == run[r].pc = "final" \/ "writeBack" \in obs[r].calls
\* content.AudioFiles on entering Synthesize: empty after Generate (line 706),
\* the stored list after the load of line 734.
EntryAudioFiles(r) == IF WentToGenerate(r) THEN <<>> ELSE obs[r].before.audioFiles

C33_ZeroLengthIsAbsent ==
    \A r \in Runs :
        Decided(r) /\ obs[r].before.kind \in {"zero", "none"}
        => /\ ~run[r].contentExists
           /\ WentToGenerate(r)
           /\ "get" \notin obs[r].calls

\* A run without force flags that found a zero-length object, generated the
\* texts and replaced the object with its own artifact.
C33_Witness ==
    \E r \in Runs :
        /\ Returned(r) /\ ~run[r].force /\ ~run[r].forceAudio
        /\ obs[r].before = ZeroObject
        /\ "putFinal" \in obs[r].ok
        /\ OwnRecord(r, Stored(r))

\* ------------------------------------------------------------- C34
\* The stored object a locator names: both forms of locator carry the key.
KeyOf(url) == url[3]

\* The audio of a script: one segment per turn, in line order.
ScriptAudio(script) ==
    LET turns == SelectSeq(SplitLines(script), LAMBDA l : TrimSpace(l) # <<>>)
    IN  [j \in 1 .. Len(turns) |-> Segment(TurnText(turns[j]), SpeakerOf(turns[j]))]

\* a is b with some elements left out (turns whose call failed are dropped).
RECURSIVE IsSubSeq(_, _)
IsSubSeq(a, b) ==
    IF a = <<>> THEN TRUE
    ELSE IF b = <<>> THEN FALSE
    ELSE IF Head(a) = Head(b) THEN IsSubSeq(Tail(a), Tail(b))
    ELSE IsSubSeq(a, Tail(b))

\* C34: in every state, when the stored artifact of a date has a non-empty
\* audio locator, the object the locator names is audio synthesized from the
\* turns of the podcast script stored in that same artifact.
C34_AudioMatchesScript ==
    \A d \in Dates :
        LET obj == store[ContentKey(d)]
        IN  HasAudio(obj)
            => LET a == store[KeyOf(obj.audioUrl)]
               IN  /\ a.kind = "mp3"
                   /\ a.data # <<>>
                   /\ IsSubSeq(a.data, ScriptAudio(obj.podcast.body))

\* ------------------------------------------------------------- C35
\* The objects of (env, date): the content artifact and the audio object its
\* locator names.
ObjectsOf(env, date) ==
    LET obj == store[ContentKeyIn(env, date)]
    IN  {ContentKeyIn(env, date)}
        \cup (IF HasAudio(obj) THEN {KeyOf(obj.audioUrl)} ELSE {})

\* C35: a run for a date in this environment writes the content artifact
\* and the merged audio object of that (environment, date) only: a step
\* leaves every object of another date or of another environment as it was.
C35_OtherPartitionsUntouched ==
    [][\A env \in {Env, OtherEnv}, d \in AllDates :
          (env # Env \/ \A r \in Runs : run[r].date # d)
          => \A key \in ObjectsOf(env, d) : store'[key] = store[key]]_vars

\* The part of C35 about dates: the objects of Yesterday are never written.
OtherDateUntouched ==
    [][\A key \in ObjectsOf(Env, Yesterday) : store'[key] = store[key]]_vars

\* ------------------------------------------------------------- C36
\* A delete request for a date that arrived when no run was in flight, was
\* answered 200, and no run was triggered after it.
DeletedAfterRuns(r) ==
    /\ run[r].via = "delete" /\ run[r].pc = "answered"
    /\ run[r].response.status = 200
    /\ "quiet" \in obs[r].calls
    /\ \A q \in Runs : q > r => run[q].pc = "idle"

\* C36: after a delete-content request for a date was answered with
\* success, the content artifact of the date and the merged audio object
\* the pipeline uploaded for it are both gone from the store.
C36_DeleteRemovesRunObjects ==
    \A r \in Runs :
        DeletedAfterRuns(r)
        => /\ store[ContentKey(run[r].date)] = NoObject
           /\ store[MergedAudioKey(run[r].date)] = NoObject

\* ------------------------------------------------------------- C37
\* A podcast query that arrived when no run was in flight and was answered
\* 200 from an artifact with a non-empty audio locator.
AnsweredWithAudio(r) ==
    /\ run[r].via = "podcast" /\ run[r].pc = "answered"
    /\ run[r].response.status = 200
    /\ "quiet" \in obs[r].calls
    /\ run[r].content.audioUrl # EmptyURL

\* C37: when the artifact of a date has a non-empty audio locator, the
\* audio URL in the answer of the podcast query names the object the
\* pipeline uploaded as the merged audio of that date, the one the
\* artifact's locator names.
C37_QueryNamesUploadedAudio ==
    \A r \in Runs :
        AnsweredWithAudio(r)
        => /\ KeyOf(run[r].response.audioUrl) = MergedAudioKey(run[r].date)
           /\ KeyOf(run[r].response.audioUrl) = KeyOf(run[r].content.audioUrl)

\* ------------------------------------------------------------- C38
\* C38: an UploadFile call whose object was written returns no error and a
\* non-empty locator: the presigned URL of the object, or its relative path
\* when presigning failed; the run keeps that locator.  A call whose put
\* failed returns an error and the empty locator.
C38_PutReturnsLocator ==
    \A r \in Runs :
        \A j \in 1 .. Len(obs[r].puts) :
            LET p == obs[r].puts[j]
            IN  /\ p.written
                   => /\ ~p.err
                      /\ p.url # EmptyURL
                      /\ p.url = (IF p.signed THEN PresignedURL(p.name)
                                  ELSE RelativePath(p.name))
                      /\ run[r].content.audioUrl = p.url
                      /\ "putAudio" \in obs[r].ok
                /\ ~p.written => p.err /\ p.url = EmptyURL

\* A run whose merged audio was written while presigning failed: the upload
\* counted as a success and the artifact written back carries the relative
\* path.
C38_Witness ==
    \E r \in Runs :
        /\ Returned(r) /\ Len(obs[r].puts) = 1
        /\ obs[r].puts[1].written /\ ~obs[r].puts[1].signed
        /\ "putFinal" \in obs[r].ok
        /\ Stored(r).audioUrl = RelativePath(MergedAudioKey(run[r].date))
        /\ store[MergedAudioKey(run[r].date)].kind = "mp3"

====
